---------------------------- MODULE Spec2Model ----------------------------
(***************************************************************************)
(* A model of ljdumpgo (src/main.go): the incremental synchronisation of   *)
(* one LiveJournal journal (posts, comments), the atomic file writer, the   *)
(* error reports, and the picture synchronisation of the account.           *)
(*                                                                          *)
(* Strings that the program only stores and compares are model values       *)
(* (short strings).  The change-feed timestamp/cursor is a natural number,  *)
(* 0 standing for the empty string of a journal that was never synced.      *)
(* An item identifier is the sequence of its characters.                    *)
(***************************************************************************)
EXTENDS Integers, Sequences, FiniteSets, TLC

(***************************************************************************)
(* Bounds of the model                                                      *)
(***************************************************************************)
MaxFeed == 2            \* items in the remote change feed
PageSize == 2           \* items the remote returns per syncitems call
MaxRuns == 2            \* runs of the program over the same archive
MaxCommentId == 2       \* comment ids the remote may report
MaxChunk == 1           \* comments per export_comments chunk
MaxReqLog == 4          \* requests of a run that the request log records

(***************************************************************************)
(* Generic helpers                                                          *)
(***************************************************************************)
EmptyMap == [k \in {} |-> 0]

MinOf(S) == CHOOSE m \in S : \A n \in S : m <= n
MaxOf(S) == CHOOSE m \in S : \A n \in S : m >= n

RECURSIVE SortedIds(_)
\* sort.Sort(sortIds): the ids of S in ascending order
SortedIds(S) == IF S = {} THEN <<>>
                ELSE LET m == MinOf(S) IN <<m>> \o SortedIds(S \ {m})

SeqsUpTo(S, n) == UNION {[1..k -> S] : k \in 0..n}

IsInjective(s) == \A i, j \in 1..Len(s) : s[i] = s[j] => i = j

(***************************************************************************)
(* Reports (main.go 57-108)                                                 *)
(***************************************************************************)
NilReport == [isNil |-> TRUE, message |-> "", err |-> "", combined |-> <<>>]

ReportMsg(m) == [isNil |-> FALSE, message |-> m, err |-> "", combined |-> <<>>]

WrapErr(e, m) == [isNil |-> FALSE, message |-> m, err |-> e, combined |-> <<>>]

CombineReports(r1, r2) ==
    IF r1.isNil THEN r2
    ELSE IF r2.isNil THEN r1
    ELSE [isNil |-> FALSE, message |-> "", err |-> "", combined |-> <<r1, r2>>]

RECURSIVE AsText(_)
\* Report.AsText: the lines of the report, in order; a line is <<message, err>>
AsText(r) ==
    IF Len(r.combined) # 0
    THEN LET RECURSIVE cat(_)
             cat(i) == IF i > Len(r.combined) THEN <<>>
                       ELSE AsText(r.combined[i]) \o cat(i + 1)
         IN cat(1)
    ELSE <<(<<r.message, r.err>>)>>


(***************************************************************************)
(* Universe of remote data                                                  *)
(***************************************************************************)
\* Change-feed item identifiers, as character sequences
ItemIds == { <<"L", "-", "1">>, <<"L", "-", "2">>, <<"C", "-", "1">>,
             <<"L", "-", "x">>, <<"L", "1">>, <<"L">> }

\* getevents payloads (serialisable events)
Events == {"e1"}

PostIds == {1, 2}                       \* jitemid of a comment
PosterIds == {0, 1}                     \* posterid of a comment; 0 is anonymous
UserNames == {"u", "v"}
MetaStates == {"A", "D"}                \* state attribute of comment_meta
BodyStates == {"", "D"}                 \* state attribute of comment_body
CommentIds == 1..MaxCommentId

\* The feeds the remote may hold: every item listed once, item i changed at time i
Feeds == {f \in SeqsUpTo(ItemIds, MaxFeed) : IsInjective(f)}

(***************************************************************************)
(* State                                                                    *)
(***************************************************************************)
VARIABLES
    pc,         \* position of the run: "idle", "posts", "item", "meta", "body",
                \* "finish", "done", "crashed"
    run,        \* number of runs started
    feed,       \* the remote change feed
    remote,     \* the comments, users and maxid values the remote may report
    disk,       \* the journal directory: dir, db, entries, comments, py
    jcx,        \* journalContext: db.lastSync, db.userMap, db.commentMap, ...
    loc,        \* locals of dumpJournalPosts / dumpJournalComments / dumpJournal
    out,        \* what main leaves: report and exit status
    hist,       \* history of the run (requests sent, files written, last step)
    mfiles,     \* comment files under a sequence of merges: post id -> content
    mlast,      \* the last merge: its arguments, the files before it, its result
    wfs,        \* the files writeFileTempRename touches: path -> file
    wst,        \* the call of writeFileTempRename in progress
    acct,       \* accountData in memory
    adisk,      \* the account data directory: db and picture files
    pst,        \* position and locals of dumpAccountData
    plast,      \* the last call of fetchAnsStorePictureUrl
    thr,        \* the session's throttle: clock, lastRequestTime, requests sent
    store,      \* a state file being written and read back: content and outcome
    ev,         \* an entry item and its event going through the post loop
    rec         \* a fetched comment, what is known about it, and its record

jvars == <<pc, run, feed, remote, disk, jcx, loc, out, hist>>
mvars == <<mfiles, mlast>>
wvars == <<wfs, wst>>
pvars == <<acct, adisk, pst, plast>>
tvars == <<thr>>
svars == <<store>>
evars == <<ev>>
rvars == <<rec>>
vars == <<jvars, mvars, wvars, pvars, tvars, svars, evars, rvars>>

\* The parts of the state a specification does not move stay at these values
NoRecord == [Id |-> 0, State |-> "", User |-> "", ParentId |-> "", Date |-> "",
             Subject |-> "", Body |-> <<>>]
NoMerge == [done |-> FALSE, before |-> EmptyMap, jitemid |-> 0,
            record |-> NoRecord, outcome |-> "none", wrote |-> FALSE,
            r |-> NilReport]
MergeIdle ==
    /\ mfiles = EmptyMap
    /\ mlast = NoMerge

Absent == [exists |-> FALSE, data |-> <<>>]
NoCall == [pc |-> "idle", path |-> "", tmp |-> "", data |-> <<>>, old |-> Absent,
           pos |-> 0, err |-> FALSE, failed |-> FALSE, ret |-> "none"]
WriterIdle ==
    /\ wfs = EmptyMap
    /\ wst = NoCall

NoAccount == [fileCounter |-> 0, pictureDefaultUrl |-> "",
              pictureUrlFileMap |-> EmptyMap, pictureKeywordUrlMap |-> EmptyMap]
NoAccountDisk == [dir |-> FALSE, db |-> [exists |-> FALSE, data |-> NoAccount],
                  pics |-> EmptyMap]
NoPicRun == [pc |-> "idle", run |-> 0, keywords |-> <<>>, urls |-> <<>>,
             defaultpicurl |-> "", idx |-> 0, updated |-> FALSE,
             failedDownload |-> FALSE, r |-> NilReport, exit |-> 0]
NoFetch == [called |-> FALSE, url |-> "", acct0 |-> NoAccount,
            pics0 |-> EmptyMap, download |-> "none", wrote |-> FALSE,
            r |-> NilReport]
PicsIdle ==
    /\ acct = NoAccount
    /\ adisk = NoAccountDisk
    /\ pst = NoPicRun
    /\ plast = NoFetch

\* a new session (797-801): lastRequestTime is the zero time
NewSession == [pc |-> "idle", now |-> 0, isZero |-> TRUE, lastRequestTime |-> 0,
               wake |-> 0, arrived |-> <<>>, sent |-> <<>>]
ThrottleIdle == thr = NewSession

\* no state file written yet
NoStore == [pc |-> "idle", kind |-> "none", mem |-> <<>>,
            file |-> [items |-> <<>>, bad |-> FALSE],
            back |-> <<>>, r |-> NilReport]
StoreIdle == store = NoStore

\* no entry item handed to the post loop yet
NoEvent == [pc |-> "idle", event |-> <<>>, r |-> NilReport, file |-> <<>>,
            written |-> FALSE, lastSync |-> 0, shouldWriteDB |-> FALSE]
EventIdle == ev = NoEvent
NoResolve == [pc |-> "idle", c |-> NoRecord,
              newComments |-> EmptyMap, newCommentUsers |-> EmptyMap,
              commentMap |-> EmptyMap, userMap |-> EmptyMap,
              record |-> NoRecord]
RecordIdle == rec = NoResolve

(***************************************************************************)
(* Journal state file (main.go 484-574)                                     *)
(***************************************************************************)
\* The last row of a table with key k: the decoder loop assigns the rows to
\* the map in file order, so a later row wins
LastRow(rows, k) == rows[MaxOf({i \in 1..Len(rows) : rows[i][1] = k})]

RowKeys(rows) == {rows[i][1] : i \in 1..Len(rows)}

\* writeJournalDB: lastSync, then the users and commentMeta tables sorted by id
EncodeJournalDB(db) ==
    LET uids == SortedIds(DOMAIN db.userMap)
        cids == SortedIds(DOMAIN db.commentMap)
    IN [lastSync |-> db.lastSync,
        users |-> [i \in 1..Len(uids) |-> <<uids[i], db.userMap[uids[i]]>>],
        commentMeta |-> [i \in 1..Len(cids) |->
                            <<cids[i], db.commentMap[cids[i]].posterId,
                              db.commentMap[cids[i]].state>>]]

\* DecodeJournalDB without the case for the lastSync scalar
DecodeJournalDBNoCursor(data) ==
    [lastSync |-> 0,
     userMap |-> [k \in RowKeys(data.users) |-> LastRow(data.users, k)[2]],
     commentMap |-> [k \in RowKeys(data.commentMeta) |->
                        [posterId |-> LastRow(data.commentMeta, k)[2],
                         state |-> LastRow(data.commentMeta, k)[3]]]]

\* the decoding loop of readJournalDB (549-570)
DecodeJournalDB(data) ==
    [lastSync |-> data.lastSync,
     userMap |-> [k \in RowKeys(data.users) |-> LastRow(data.users, k)[2]],
     commentMap |-> [k \in RowKeys(data.commentMeta) |->
                        [posterId |-> LastRow(data.commentMeta, k)[2],
                         state |-> LastRow(data.commentMeta, k)[3]]]]

NoFile == [exists |-> FALSE, data |-> EncodeJournalDB(
              [lastSync |-> 0, userMap |-> EmptyMap, commentMap |-> EmptyMap])]

\* writeFileTempRename as one step of a run: the target holds the new data
\* when both the write of the temporary and the rename succeeded, and is
\* untouched otherwise
WriteFileTempRename(old, data, ok) ==
    IF ok THEN [exists |-> TRUE, data |-> data] ELSE old

\* writeJournalDB(jcx) on disk d; the write needs the journal directory
WriteJournalDB(d, j, ok) ==
    LET done == ok /\ d.dir
    IN [disk |-> [d EXCEPT !.db = WriteFileTempRename(
                                      @, EncodeJournalDB(j), done)],
        r |-> IF done THEN NilReport
              ELSE WrapErr("io", "failed to write journal db file")]

\* Python files of ljdump.py: .last, comment.meta, user.map
PyNone == [hasLast |-> FALSE, last |-> 0,
           hasMeta |-> FALSE, meta |-> EmptyMap,
           hasUsers |-> FALSE, users |-> EmptyMap]
PyOld == [hasLast |-> TRUE, last |-> 1,
          hasMeta |-> TRUE, meta |-> (1 :> [posterId |-> 1, state |-> "A"]),
          hasUsers |-> TRUE, users |-> (1 :> "u")]

NewJournalContext ==
    [lastSync |-> 0, userMap |-> EmptyMap, userMapNil |-> TRUE,
     commentMap |-> EmptyMap, commentMapNil |-> TRUE,
     shouldWriteDB |-> FALSE, origDbLastSync |-> 0]

\* readJournalDB: the outcome [r, jcx, disk] for the inputs
\*   readOk: ioutil.ReadFile does not fail with an error other than NotExist
\*   pyOk:   the Python files, when present, can be read and unpickled
\*   writeOk: the write of the converted state succeeds
ReadJournalDB(d, readOk, pyOk, writeOk) ==
    LET j0 == NewJournalContext
    IN IF ~readOk
       THEN [r |-> WrapErr("io", ""), jcx |-> j0, disk |-> d]
       ELSE IF ~d.db.exists
       THEN IF ~pyOk
            THEN [r |-> WrapErr("io", "error while reading old python-generated DB files"),
                  jcx |-> j0, disk |-> d]
            ELSE LET j1 == [j0 EXCEPT
                              !.lastSync = IF d.py.hasLast THEN d.py.last ELSE 0,
                              !.commentMap = d.py.meta,
                              !.commentMapNil = ~d.py.hasMeta,
                              !.userMap = d.py.users,
                              !.userMapNil = ~d.py.hasUsers]
                     w == WriteJournalDB(d, j1, writeOk)
                 IN [r |-> w.r,
                     jcx |-> [j1 EXCEPT !.origDbLastSync =
                                 IF w.r.isNil THEN j1.lastSync ELSE 0],
                     disk |-> w.disk]
       ELSE LET db == DecodeJournalDB(d.db.data)
            IN [r |-> NilReport,
                jcx |-> [j0 EXCEPT !.lastSync = db.lastSync,
                                   !.userMap = db.userMap, !.userMapNil = FALSE,
                                   !.commentMap = db.commentMap,
                                   !.commentMapNil = FALSE,
                                   !.origDbLastSync = db.lastSync],
                disk |-> d]


(***************************************************************************)
(* Post synchronisation (main.go 1096-1214)                                 *)
(***************************************************************************)
\* The remote's syncitems answer: the items changed after the cursor, oldest
\* first, at most PageSize of them
ListChanges(f, cursor) ==
    LET n == IF cursor + PageSize < Len(f) THEN cursor + PageSize ELSE Len(f)
    IN [i \in 1..(n - cursor) |-> [Item |-> f[cursor + i], Time |-> cursor + i]]

Digits == {"0", "1", "2", "3", "4", "5", "6", "7", "8", "9"}
DigitVal(c) == CASE c = "0" -> 0 [] c = "1" -> 1 [] c = "2" -> 2 [] c = "3" -> 3
                 [] c = "4" -> 4 [] c = "5" -> 5 [] c = "6" -> 6 [] c = "7" -> 7
                 [] c = "8" -> 8 [] c = "9" -> 9

RECURSIVE DecimalVal(_)
DecimalVal(s) == IF s = <<>> THEN 0
                 ELSE 10 * DecimalVal(SubSeq(s, 1, Len(s) - 1)) + DigitVal(s[Len(s)])

\* strconv.ParseInt(s, 10, 64) on the short strings of the model: an optional
\* sign and at least one digit
ParseInt(s) ==
    LET signed == Len(s) > 0 /\ s[1] \in {"+", "-"}
        ds == IF signed THEN SubSeq(s, 2, Len(s)) ELSE s
    IN IF ds # <<>> /\ \A i \in 1..Len(ds) : ds[i] \in Digits
       THEN [ok |-> TRUE,
             n |-> IF signed /\ s[1] = "-" THEN 0 - DecimalVal(ds) ELSE DecimalVal(ds)]
       ELSE [ok |-> FALSE, n |-> 0]

\* What lines 1179-1187 make of an item identifier: "panic" when the warning
\* indexes item.Item[1] of an identifier shorter than two characters, "skip"
\* for an identifier not of the form letter-number, "entry" for 'L', "other"
ItemKind(id) ==
    IF Len(id) < 3 \/ id[2] # "-"
    THEN IF Len(id) < 2 THEN "panic" ELSE "skip"
    ELSE IF ~ParseInt(SubSeq(id, 3, Len(id))).ok
         THEN "skip"
         ELSE IF id[1] = "L" THEN "entry" ELSE "other"

ItemNumber(id) == ParseInt(SubSeq(id, 3, Len(id))).n

\* EventPath without the letter of the identifier
EventPathNumber(id) == <<ItemNumber(id)>>

\* the name of the entry file, "%c-%d"
EventPath(id) == <<id[1], ItemNumber(id)>>


\* writeLJEventDump: the serialised event goes to the entry file through
\* writeFileTempRename; ok is the outcome of that write
WriteLJEventDump(d, id, event, ok) ==
    [disk |-> IF ok THEN [d EXCEPT !.entries = (EventPath(id) :> event) @@ @] ELSE d,
     r |-> IF ok THEN NilReport ELSE WrapErr("io", "")]

\* DumpItem with the cursor assignment of line 1209 moved before the fetch
DumpItemCursorFirst(j, d, item, fetch, writeOk) ==
    LET j1 == [j EXCEPT !.lastSync = item.Time, !.shouldWriteDB = TRUE]
    IN IF ItemKind(item.Item) = "entry" /\ fetch \notin Events
       THEN [jcx |-> j1, disk |-> d,
             r |-> IF fetch = "err" THEN WrapErr("rpc", "")
                   ELSE ReportMsg("Unexpected empty item")]
       ELSE IF ItemKind(item.Item) = "entry"
       THEN LET w == WriteLJEventDump(d, item.Item, fetch, writeOk)
            IN [jcx |-> j1, disk |-> w.disk, r |-> w.r]
       ELSE [jcx |-> j1, disk |-> d, r |-> NilReport]

\* DumpItem with the result of writeLJEventDump ignored (no return at 1205)
DumpItemIgnoreWrite(j, d, item, fetch, writeOk) ==
    LET j1 == [j EXCEPT !.lastSync = item.Time, !.shouldWriteDB = TRUE]
    IN IF ItemKind(item.Item) = "entry" /\ fetch \notin Events
       THEN [jcx |-> j, disk |-> d,
             r |-> IF fetch = "err" THEN WrapErr("rpc", "")
                   ELSE ReportMsg("Unexpected empty item")]
       ELSE IF ItemKind(item.Item) = "entry"
       THEN [jcx |-> j1,
             disk |-> WriteLJEventDump(d, item.Item, fetch, writeOk).disk,
             r |-> NilReport]
       ELSE [jcx |-> j1, disk |-> d, r |-> NilReport]

\* DumpItem with lines 1209-1210 inside the branch of line 1188
DumpItemEntriesOnly(j, d, item, fetch, writeOk) ==
    IF ItemKind(item.Item) = "entry"
    THEN IF fetch = "err"
         THEN [jcx |-> j, disk |-> d, r |-> WrapErr("rpc", "")]
         ELSE IF fetch = "empty"
         THEN [jcx |-> j, disk |-> d, r |-> ReportMsg("Unexpected empty item")]
         ELSE LET w == WriteLJEventDump(d, item.Item, fetch, writeOk)
              IN IF ~w.r.isNil
                 THEN [jcx |-> j, disk |-> w.disk, r |-> w.r]
                 ELSE [jcx |-> [j EXCEPT !.lastSync = item.Time,
                                         !.shouldWriteDB = TRUE],
                       disk |-> w.disk, r |-> NilReport]
    ELSE [jcx |-> j, disk |-> d, r |-> NilReport]

\* One iteration of the loop over syncItemsResult.SyncItems (1177-1211) for
\* an item that is not skipped.  fetch is the getevents outcome: "err" (the
\* call failed), "empty" (no event in the result) or the event.
\* The result: the journal context, the disk, and the report (nil: go on).
DumpItem(j, d, item, fetch, writeOk) ==
    IF ItemKind(item.Item) = "entry"
    THEN IF fetch = "err"
         THEN [jcx |-> j, disk |-> d, r |-> WrapErr("rpc", "")]
         ELSE IF fetch = "empty"
         THEN [jcx |-> j, disk |-> d, r |-> ReportMsg("Unexpected empty item")]
         ELSE LET w == WriteLJEventDump(d, item.Item, fetch, writeOk)
              IN IF ~w.r.isNil
                 THEN [jcx |-> j, disk |-> w.disk, r |-> w.r]
                 ELSE [jcx |-> [j EXCEPT !.lastSync = item.Time,
                                         !.shouldWriteDB = TRUE],
                       disk |-> w.disk, r |-> NilReport]
    ELSE [jcx |-> [j EXCEPT !.lastSync = item.Time, !.shouldWriteDB = TRUE],
          disk |-> d, r |-> NilReport]

(***************************************************************************)
(* Comment synchronisation (main.go 1217-1440)                              *)
(***************************************************************************)
LJCommentMeta == [Id : CommentIds, PosterId : PosterIds, State : MetaStates]
LJUserMap == [Id : PosterIds \ {0}, User : UserNames]
\* the answers the remote rm may give to a comment_meta request
LJCommentMetaChunk(rm) == [MaxId : rm.maxIds,
                           Comments : SeqsUpTo(rm.meta, MaxChunk),
                           UserMaps : SeqsUpTo(rm.users, 1)]
LJComment == [Id : CommentIds, PosterId : PosterIds, State : BodyStates,
              JItemId : PostIds, ParentId : {""}, Subject : {""},
              Body : {<<"b">>}, Date : {"d"}]
\* the answers the remote rm may give to a comment_body request
LJCommentChunk(rm) == SeqsUpTo(rm.bodies, MaxChunk)

\* a journal with one comment
OneComment ==
    [meta |-> {[Id |-> 1, PosterId |-> 1, State |-> "A"]},
     users |-> {[Id |-> 1, User |-> "u"]},
     maxIds |-> {0, 1},
     bodies |-> {[Id |-> 1, PosterId |-> 1, State |-> "", JItemId |-> 1,
                  ParentId |-> "", Subject |-> "", Body |-> <<"b">>, Date |-> "d"]}]

\* BeginComments that starts from -1 whatever is stored
BeginCommentsFromStart(j) ==
    [page |-> <<>>, r |-> NilReport,
     newComments |-> EmptyMap, newCommentUsers |-> EmptyMap,
     maxStoredCommentId |-> -1, newMaxId |-> -1, maxFetchedId |-> -1]

\* lines 1278-1286 and 1317: the locals of dumpJournalComments before the
\* first request
BeginComments(j) ==
    LET maxStoredCommentId ==
            IF DOMAIN j.commentMap = {} THEN -1 ELSE MaxOf(DOMAIN j.commentMap)
    IN [page |-> <<>>, r |-> NilReport,
        newComments |-> EmptyMap, newCommentUsers |-> EmptyMap,
        maxStoredCommentId |-> maxStoredCommentId,
        newMaxId |-> maxStoredCommentId,
        maxFetchedId |-> maxStoredCommentId]

NoLocals == BeginComments(NewJournalContext)

\* MetaChunkStep keeping the comments of the last chunk only
MetaChunkStepReplace(l, chunk) ==
    LET cs == chunk.Comments
        us == chunk.UserMaps
        ids == {cs[i].Id : i \in 1..Len(cs)}
        uids == {us[i].Id : i \in 1..Len(us)}
        lastC(k) == cs[MaxOf({i \in 1..Len(cs) : cs[i].Id = k})]
        lastU(k) == us[MaxOf({i \in 1..Len(us) : us[i].Id = k})]
    IN [l EXCEPT
          !.newComments = IF ids = {} THEN @
                          ELSE [k \in ids |-> [posterId |-> lastC(k).PosterId,
                                               state |-> lastC(k).State]],
          !.newMaxId = MaxOf({@} \cup ids),
          !.newCommentUsers = [k \in DOMAIN @ \cup uids |->
                                  IF k \in uids THEN lastU(k).User ELSE @[k]]]

\* lines 1324-1333: a meta chunk folded into the locals
MetaChunkStep(l, chunk) ==
    LET cs == chunk.Comments
        us == chunk.UserMaps
        ids == {cs[i].Id : i \in 1..Len(cs)}
        uids == {us[i].Id : i \in 1..Len(us)}
        lastC(k) == cs[MaxOf({i \in 1..Len(cs) : cs[i].Id = k})]
        lastU(k) == us[MaxOf({i \in 1..Len(us) : us[i].Id = k})]
    IN [l EXCEPT
          !.newComments = [k \in DOMAIN @ \cup ids |->
                              IF k \in ids
                              THEN [posterId |-> lastC(k).PosterId,
                                    state |-> lastC(k).State]
                              ELSE @[k]],
          !.newMaxId = MaxOf({@} \cup ids),
          !.newCommentUsers = [k \in DOMAIN @ \cup uids |->
                                  IF k \in uids THEN lastU(k).User ELSE @[k]]]

\* MakeRecord looking into the persisted maps before those of this run
MakeRecordPersistedFirst(c, l, j) ==
    [Id |-> c.Id, ParentId |-> c.ParentId, Subject |-> c.Subject,
     Date |-> c.Date, Body |-> c.Body,
     State |-> IF c.State # "" THEN c.State
               ELSE IF c.Id \in DOMAIN j.commentMap THEN j.commentMap[c.Id].state
               ELSE IF c.Id \in DOMAIN l.newComments THEN l.newComments[c.Id].state
               ELSE "",
     User |-> IF c.PosterId = 0 THEN ""
              ELSE IF c.PosterId \in DOMAIN j.userMap THEN j.userMap[c.PosterId]
              ELSE IF c.PosterId \in DOMAIN l.newCommentUsers
                   THEN l.newCommentUsers[c.PosterId]
              ELSE ""]

\* lines 1349-1370: the record archived for a fetched comment
MakeRecord(c, l, j) ==
    [Id |-> c.Id, ParentId |-> c.ParentId, Subject |-> c.Subject,
     Date |-> c.Date, Body |-> c.Body,
     State |-> IF c.State # "" THEN c.State
               ELSE IF c.Id \in DOMAIN l.newComments THEN l.newComments[c.Id].state
               ELSE IF c.Id \in DOMAIN j.commentMap THEN j.commentMap[c.Id].state
               ELSE "",
     User |-> IF c.PosterId = 0 THEN ""
              ELSE IF c.PosterId \in DOMAIN l.newCommentUsers
                   THEN l.newCommentUsers[c.PosterId]
              ELSE IF c.PosterId \in DOMAIN j.userMap THEN j.userMap[c.PosterId]
              ELSE ""]

\* encoding/xml, Encode at 1410-1417 and Unmarshal at 1384: the characters of
\* a text are escaped when written and unescaped when read.  A text is a
\* sequence of characters; only the body of a comment carries markup here
XmlEscapeChar(c) ==
    CASE c = "<" -> <<"&", "l", "t", ";">>
      [] c = "&" -> <<"&", "a", "m", "p", ";">>
      [] OTHER -> <<c>>

RECURSIVE XmlEscape(_)
XmlEscape(t) ==
    IF t = <<>> THEN <<>> ELSE XmlEscapeChar(Head(t)) \o XmlEscape(Tail(t))

RECURSIVE XmlUnescape(_)
XmlUnescape(x) ==
    IF x = <<>> THEN <<>>
    ELSE IF Len(x) >= 4 /\ SubSeq(x, 1, 4) = <<"&", "l", "t", ";">>
    THEN <<"<">> \o XmlUnescape(SubSeq(x, 5, Len(x)))
    ELSE IF Len(x) >= 5 /\ SubSeq(x, 1, 5) = <<"&", "a", "m", "p", ";">>
    THEN <<"&">> \o XmlUnescape(SubSeq(x, 6, Len(x)))
    ELSE <<Head(x)>> \o XmlUnescape(Tail(x))

\* the content of a comment file for the records of a CommentFile, and back
XmlEncode(comments) ==
    [i \in 1..Len(comments) |-> [comments[i] EXCEPT !.Body = XmlEscape(@)]]

XmlDecode(content) ==
    [i \in 1..Len(content) |-> [content[i] EXCEPT !.Body = XmlUnescape(@)]]

\* MergeRecord appending whether or not the id is in the file
MergeRecordAppend(stored, record) ==
    [comments |-> Append(stored, record), shouldStore |-> TRUE]

\* MergeRecord storing the file also when the record is already there
MergeRecordAlwaysStore(stored, record) ==
    LET dups == {i \in 1..Len(stored) : stored[i].Id = record.Id}
    IN IF dups = {}
       THEN [comments |-> Append(stored, record), shouldStore |-> TRUE]
       ELSE [comments |-> [stored EXCEPT ![MinOf(dups)] = record],
             shouldStore |-> TRUE]

\* MergeRecord replacing a changed record by dropping it and appending
MergeRecordMoveToEnd(stored, record) ==
    LET dups == {i \in 1..Len(stored) : stored[i].Id = record.Id}
        i == MinOf(dups)
    IN IF dups = {}
       THEN [comments |-> Append(stored, record), shouldStore |-> TRUE]
       ELSE IF stored[i] = record
       THEN [comments |-> stored, shouldStore |-> FALSE]
       ELSE [comments |-> Append(SubSeq(stored, 1, i - 1) \o
                                 SubSeq(stored, i + 1, Len(stored)), record),
             shouldStore |-> TRUE]

\* lines 1389-1408: the fetched record merged into the records of its file;
\* shouldStore tells whether the file is to be written
MergeRecord(stored, record) ==
    LET dups == {i \in 1..Len(stored) : stored[i].Id = record.Id}
    IN IF dups = {}
       THEN [comments |-> Append(stored, record), shouldStore |-> TRUE]
       ELSE LET i == MinOf(dups)
            IN IF stored[i] = record
               THEN [comments |-> stored, shouldStore |-> FALSE]
               ELSE [comments |-> [stored EXCEPT ![i] = record],
                     shouldStore |-> TRUE]

\* lines 1375-1422 for one fetched comment of post jitemid: the comment files
\* after it, whether the file was written, and the report.  outcome is "ok",
\* "readerr" (the old file cannot be read or parsed) or "writeerr"
MergeComment(files, jitemid, record, outcome) ==
    LET stored == IF jitemid \in DOMAIN files THEN XmlDecode(files[jitemid])
                  ELSE <<>>
        m == MergeRecord(stored, record)
    IN IF outcome = "readerr"
       THEN [files |-> files, wrote |-> FALSE,
             r |-> WrapErr("io", "error while reading old comments")]
       ELSE IF ~m.shouldStore
       THEN [files |-> files, wrote |-> FALSE, r |-> NilReport]
       ELSE IF outcome = "writeerr"
       THEN [files |-> files, wrote |-> FALSE, r |-> WrapErr("io", "")]
       ELSE [files |-> (jitemid :> XmlEncode(m.comments)) @@ files,
             wrote |-> TRUE,
             r |-> NilReport]

RECURSIVE BodyChunkStep(_, _, _, _, _)
\* lines 1347-1423: the comments of a body chunk from the i-th on, in order,
\* until one fails.  st is [files, maxFetchedId, wrote, r]
BodyChunkStep(st, chunk, outcomes, l, j) ==
    IF chunk = <<>> \/ ~st.r.isNil THEN st
    ELSE LET c == Head(chunk)
             m == MergeComment(st.files, c.JItemId, MakeRecord(c, l, j),
                               Head(outcomes))
         IN BodyChunkStep(
                [files |-> m.files,
                 maxFetchedId |-> IF st.maxFetchedId < c.Id THEN c.Id
                                  ELSE st.maxFetchedId,
                 wrote |-> IF m.wrote THEN st.wrote \cup {c.JItemId} ELSE st.wrote,
                 r |-> m.r],
                Tail(chunk), Tail(outcomes), l, j)

\* lines 1429-1438: what was learned goes into the journal state.  Writing
\* into a nil map panics
MergeStatePanics(l, j) ==
    \/ DOMAIN l.newComments # {} /\ j.commentMapNil
    \/ DOMAIN l.newCommentUsers # {} /\ j.userMapNil

MergeState(l, j) ==
    IF DOMAIN l.newComments # {} \/ DOMAIN l.newCommentUsers # {}
    THEN [j EXCEPT !.commentMap = l.newComments @@ @,
                   !.userMap = l.newCommentUsers @@ @,
                   !.shouldWriteDB = TRUE]
    ELSE j

(***************************************************************************)
(* The driver (main.go 1442-1502)                                           *)
(***************************************************************************)
\* DumpJournalEnd writing the state whether or not it is dirty
DumpJournalEndAlways(d, j, r, ok) ==
    LET w == WriteJournalDB(d, j, ok)
    IN [disk |-> w.disk, r |-> CombineReports(r, w.r), w |-> w.r,
        wrote |-> w.r.isNil]

\* DumpJournalEnd writing the state only when the engines succeeded
DumpJournalEndOnSuccess(d, j, r, ok) ==
    IF j.shouldWriteDB /\ r.isNil
    THEN LET w == WriteJournalDB(d, j, ok)
         IN [disk |-> w.disk, r |-> CombineReports(r, w.r), w |-> w.r,
             wrote |-> w.r.isNil]
    ELSE [disk |-> d, r |-> r, w |-> NilReport, wrote |-> FALSE]

\* lines 1455-1457: the state is written when dirty, whatever the engines
\* returned, and the reports are combined.  w is the report of the write,
\* wrote tells whether the state file was replaced
DumpJournalEnd(d, j, r, ok) ==
    IF j.shouldWriteDB
    THEN LET w == WriteJournalDB(d, j, ok)
         IN [disk |-> w.disk, r |-> CombineReports(r, w.r), w |-> w.r,
             wrote |-> w.r.isNil]
    ELSE [disk |-> d, r |-> r, w |-> NilReport, wrote |-> FALSE]

\* main: the report goes to stderr and the exit status is 1 when there is one
Exit(r) == [report |-> r,
            stderr |-> IF r.isNil THEN <<>> ELSE AsText(r),
            exit |-> IF r.isNil THEN 0 ELSE 1]

\* a panic ends the process with status 2 and no report
Panic == [report |-> NilReport, stderr |-> <<>>, exit |-> 2]


(***************************************************************************)
(* History variables                                                        *)
(***************************************************************************)
NoStep == [kind |-> "none", item |-> <<>>, time |-> 0, before |-> 0,
           fetch |-> "none", writeOk |-> FALSE, failed |-> FALSE]

\* how a run ended, for the run after it:
\*   resume: the post loop failed after it had advanced the cursor, and the
\*           state write did not fail;  time: the time of the last item that
\*           advanced the cursor
\*   quiet:  every request succeeded and none returned an item, a comment or
\*           a user;  hadDb: the state file existed when the run started
\*   wrote:  a file was written;  changed: the disk differs from the start
NoPrev == [resume |-> FALSE, time |-> 0, quiet |-> FALSE, hadDb |-> FALSE,
           wrote |-> FALSE, changed |-> FALSE]

\* the history at the start of a run; prev is the summary of the run before
NewHist(d, prev) ==
    [reqs |-> <<>>,                 \* the first requests sent, <<kind, argument>>
     disk0 |-> d,                   \* the disk when the run started
     wroteDb |-> FALSE,             \* writeJournalDB replaced the state file
     wroteEntries |-> {},           \* entry files written
     wroteComments |-> {},          \* comment files written
     step |-> NoStep,               \* the last item processed by the post loop
     lastOk |-> 0,                  \* time of the last item that advanced the cursor
     failedIn |-> "none",           \* the phase that returned a failure
     quiet |-> TRUE,                \* no request failed or returned anything
     prev |-> prev,                 \* how the run before ended
     summary |-> NoPrev]            \* how this run ended

LogReq(h, kind, arg) ==
    IF Len(h.reqs) < MaxReqLog THEN [h EXCEPT !.reqs = Append(@, <<kind, arg>>)]
    ELSE h

Summary(h, d, wroteNow, w) ==
    [resume |-> h.step.failed /\ h.lastOk # 0 /\ w.isNil,
     time |-> h.lastOk,
     quiet |-> h.quiet,
     hadDb |-> h.disk0.db.exists,
     wrote |-> h.wroteDb \/ wroteNow \/ h.wroteEntries # {} \/ h.wroteComments # {},
     changed |-> d # h.disk0]

\* the process is gone: only the disk, what main left and the summary remain
EndHist(d, summary) == [NewHist(d, NoPrev) EXCEPT !.summary = summary]

(***************************************************************************)
(* Initial states: an archive directory before the first modelled run       *)
(***************************************************************************)
EmptyDB == [exists |-> TRUE, data |-> NoFile.data]

InitDisks ==
    {[dir |-> FALSE, db |-> NoFile, entries |-> EmptyMap, comments |-> EmptyMap,
      py |-> PyNone],
     [dir |-> TRUE, db |-> NoFile, entries |-> EmptyMap, comments |-> EmptyMap,
      py |-> PyNone],
     [dir |-> TRUE, db |-> NoFile, entries |-> EmptyMap, comments |-> EmptyMap,
      py |-> PyOld],
     [dir |-> TRUE, db |-> EmptyDB, entries |-> EmptyMap, comments |-> EmptyMap,
      py |-> PyNone]}

JournalInit ==
    /\ pc = "idle"
    /\ run = 0
    /\ disk \in InitDisks
    /\ jcx = NewJournalContext
    /\ loc = NoLocals
    /\ out = Exit(NilReport)
    /\ hist = NewHist(disk, NoPrev)

\* the journal part of the state while another part of the program is examined
JournalIdle ==
    /\ pc = "idle"
    /\ run = 0
    /\ feed = <<>>
    /\ remote = OneComment
    /\ disk = [dir |-> FALSE, db |-> NoFile, entries |-> EmptyMap,
               comments |-> EmptyMap, py |-> PyNone]
    /\ jcx = NewJournalContext
    /\ loc = NoLocals
    /\ out = Exit(NilReport)
    /\ hist = NewHist(disk, NoPrev)

Init ==
    /\ feed \in Feeds
    /\ remote = OneComment
    /\ JournalInit
    /\ ThrottleIdle
    /\ StoreIdle
    /\ EventIdle
    /\ RecordIdle
    /\ MergeIdle
    /\ WriterIdle
    /\ PicsIdle

(***************************************************************************)
(* Actions                                                                  *)
(***************************************************************************)
\* main starts: dumpJournal reads the state and creates the directory
\* (1443-1449)
StartRun ==
    /\ pc \in {"idle", "done", "crashed"}
    /\ run < MaxRuns
    /\ run' = run + 1
    /\ \E readOk, pyOk, writeOk, mkdirOk \in BOOLEAN :
          LET rd == ReadJournalDB(disk, readOk, pyOk, writeOk)
              h == [NewHist(disk, hist.summary) EXCEPT
                       !.wroteDb = rd.disk.db # disk.db]
              fail(r) == /\ disk' = rd.disk
                         /\ pc' = "done"
                         /\ out' = Exit(r)
                         /\ jcx' = NewJournalContext
                         /\ hist' = EndHist(rd.disk, NoPrev)
          IN /\ loc' = NoLocals
             /\ IF ~rd.r.isNil
                THEN fail(rd.r)
                ELSE IF ~mkdirOk
                THEN fail(WrapErr("io", "failed to create directory for journal"))
                ELSE /\ disk' = [rd.disk EXCEPT !.dir = TRUE]
                     /\ pc' = "posts"
                     /\ out' = Exit(NilReport)
                     /\ jcx' = rd.jcx
                     /\ hist' = h
    /\ UNCHANGED <<feed, remote, mvars, wvars, pvars, tvars, svars, evars, rvars>>

\* the syncitems call of the post loop (1158-1169)
PostsFetch ==
    /\ pc = "posts"
    /\ \E ok \in BOOLEAN :
          LET h == LogReq(hist, "syncitems", jcx.lastSync)
              p == ListChanges(feed, jcx.lastSync)
          IN IF ~ok
             THEN /\ loc' = [loc EXCEPT !.r = WrapErr("rpc", "")]
                  /\ pc' = "finish"
                  /\ hist' = [h EXCEPT !.failedIn = "posts", !.quiet = FALSE]
             ELSE IF p = <<>>
             THEN /\ loc' = BeginComments(jcx)
                  /\ pc' = "meta"
                  /\ hist' = h
             ELSE /\ loc' = [loc EXCEPT !.page = p]
                  /\ pc' = "item"
                  /\ hist' = [h EXCEPT !.quiet = FALSE]
    /\ UNCHANGED <<run, feed, remote, disk, jcx, out, mvars, wvars, pvars, tvars, svars, evars, rvars>>

\* one item of the page (1177-1211)
PostsItem ==
    /\ pc = "item"
    /\ LET item == Head(loc.page)
           rest == Tail(loc.page)
           kind == ItemKind(item.Item)
       IN CASE kind = "panic" ->
                 /\ pc' = "crashed"
                 /\ out' = Panic
                 /\ jcx' = NewJournalContext
                 /\ loc' = NoLocals
                 /\ hist' = EndHist(disk, NoPrev)
                 /\ UNCHANGED disk
            [] kind = "skip" ->
                 /\ pc' = IF rest = <<>> THEN "posts" ELSE "item"
                 /\ loc' = [loc EXCEPT !.page = rest]
                 /\ hist' = [hist EXCEPT !.step = [NoStep EXCEPT
                                !.kind = "skip", !.item = item.Item,
                                !.time = item.Time,
                                !.before = jcx.lastSync]]
                 /\ UNCHANGED <<disk, jcx, out>>
            [] OTHER ->
                 \E fetch \in {"err", "empty"} \cup Events, writeOk \in BOOLEAN :
                    LET res == DumpItem(jcx, disk, item, fetch, writeOk)
                        h == IF kind = "entry"
                             THEN LogReq(hist, "getevents", ItemNumber(item.Item))
                             ELSE hist
                    IN /\ jcx' = res.jcx
                       /\ disk' = res.disk
                       /\ loc' = [loc EXCEPT !.page = IF res.r.isNil THEN rest ELSE @,
                                             !.r = res.r]
                       /\ pc' = IF ~res.r.isNil THEN "finish"
                                ELSE IF rest = <<>> THEN "posts" ELSE "item"
                       /\ hist' = [h EXCEPT
                             !.step = [kind |-> kind, item |-> item.Item,
                                       time |-> item.Time,
                                       before |-> jcx.lastSync,
                                       fetch |-> IF kind = "entry" THEN fetch
                                                 ELSE "none",
                                       writeOk |-> kind = "entry"
                                                   /\ fetch \in Events /\ writeOk,
                                       failed |-> ~res.r.isNil],
                             !.lastOk = IF res.r.isNil THEN item.Time ELSE @,
                             !.failedIn = IF res.r.isNil THEN @ ELSE "posts",
                             !.wroteEntries =
                                 IF kind = "entry" /\ fetch \in Events /\ writeOk
                                 THEN @ \cup {EventPath(item.Item)} ELSE @]
                       /\ UNCHANGED out
    /\ UNCHANGED <<run, feed, remote, mvars, wvars, pvars, tvars, svars, evars, rvars>>

\* one comment_meta request of the meta pass (1318-1338), answered, when
\* it does not fail, with one of chunks
CommentsMetaOn(chunks) ==
    /\ pc = "meta"
    /\ \E ok \in BOOLEAN, chunk \in chunks :
          LET h == LogReq(hist, "meta", loc.newMaxId + 1)
              l == MetaChunkStep(loc, chunk)
          IN IF ~ok
             THEN /\ loc' = [loc EXCEPT !.r = WrapErr("http", "failed to read comment_meta response")]
                  /\ pc' = "finish"
                  /\ hist' = [h EXCEPT !.failedIn = "meta", !.quiet = FALSE]
             ELSE /\ loc' = l
                  /\ pc' = IF l.newMaxId >= chunk.MaxId THEN "body" ELSE "meta"
                  /\ hist' = [h EXCEPT !.quiet = @ /\ chunk.Comments = <<>>
                                                   /\ chunk.UserMaps = <<>>]
    /\ UNCHANGED <<run, feed, remote, disk, jcx, out, mvars, wvars, pvars, tvars, svars, evars, rvars>>

\* the meta pass against a remote that may answer with any chunk
CommentsMeta == CommentsMetaOn(LJCommentMetaChunk(remote))

\* one comment_body request of the body pass (1341-1427), answered, when it
\* does not fail, with one of chunks and, when the pass ends, the merge of
\* what was learned into the journal state (1429-1439)
CommentsBodyOn(chunks) ==
    /\ pc = "body"
    /\ \E ok \in BOOLEAN, chunk \in chunks :
       \E outcomes \in [1..Len(chunk) -> {"ok", "readerr", "writeerr"}] :
          LET h == LogReq(hist, "body", loc.maxFetchedId + 1)
              st == BodyChunkStep(
                       [files |-> disk.comments,
                        maxFetchedId |-> loc.maxFetchedId,
                        wrote |-> {}, r |-> NilReport],
                       chunk, outcomes, loc, jcx)
              last == st.r.isNil /\ st.maxFetchedId >= loc.newMaxId
          IN IF ~ok
             THEN /\ loc' = [loc EXCEPT !.r = WrapErr("http", "failed to read comment_body response")]
                  /\ pc' = "finish"
                  /\ hist' = [h EXCEPT !.failedIn = "body", !.quiet = FALSE]
                  /\ UNCHANGED <<disk, jcx, out>>
             ELSE IF last /\ MergeStatePanics(loc, jcx)
             THEN /\ pc' = "crashed"
                  /\ out' = Panic
                  /\ disk' = [disk EXCEPT !.comments = st.files]
                  /\ jcx' = NewJournalContext
                  /\ loc' = NoLocals
                  /\ hist' = EndHist(disk', NoPrev)
             ELSE /\ disk' = [disk EXCEPT !.comments = st.files]
                  /\ loc' = [loc EXCEPT !.maxFetchedId = st.maxFetchedId,
                                        !.r = st.r]
                  /\ hist' = [h EXCEPT
                                !.wroteComments = @ \cup st.wrote,
                                !.failedIn = IF st.r.isNil THEN @ ELSE "body",
                                !.quiet = @ /\ chunk = <<>>]
                  /\ pc' = IF ~st.r.isNil \/ last THEN "finish" ELSE "body"
                  /\ jcx' = IF last THEN MergeState(loc, jcx) ELSE jcx
                  /\ out' = out
    /\ UNCHANGED <<run, feed, remote, mvars, wvars, pvars, tvars, svars, evars, rvars>>

\* the body pass against a remote that may answer with any chunk
CommentsBody == CommentsBodyOn(LJCommentChunk(remote))

\* the end of dumpJournal and of main (1455-1465, 1496-1502)
Finish ==
    /\ pc = "finish"
    /\ \E ok \in BOOLEAN :
          LET e == DumpJournalEnd(disk, jcx, loc.r, ok)
          IN /\ disk' = e.disk
             /\ out' = Exit(e.r)
             /\ hist' = EndHist(e.disk, Summary(hist, e.disk, e.wrote, e.w))
    /\ pc' = "done"
    /\ jcx' = NewJournalContext
    /\ loc' = NoLocals
    /\ UNCHANGED <<run, feed, remote, mvars, wvars, pvars, tvars, svars, evars, rvars>>

Next ==
    \/ StartRun
    \/ PostsFetch
    \/ PostsItem
    \/ CommentsMeta
    \/ CommentsBody
    \/ Finish

Spec == Init /\ [][Next]_vars


(***************************************************************************)
(* Claims on the run of one journal                                         *)
(***************************************************************************)
\* C1.  Partial-failure resume.  When the post loop fails on an item after
\* it advanced the cursor for earlier items, the last of them being item N
\* (skipped malformed items do not count), and the state write itself does
\* not fail, the state file left by dumpJournal holds the time of item N as
\* cursor; the next run's first syncitems request carries that cursor, and the
\* page it gets, when the request succeeds, starts with the feed item right
\* after item N.
C1_PartialFailureResume ==
    /\ (pc = "done" /\ hist.summary.resume) =>
          /\ disk.db.exists
          /\ disk.db.data.lastSync = hist.summary.time
    /\ (hist.prev.resume /\ Len(hist.reqs) >= 1) =>
          hist.reqs[1] = <<"syncitems", hist.prev.time>>
    /\ (hist.prev.resume /\ Len(hist.reqs) = 1 /\ hist.step.kind = "none"
          /\ pc # "finish") =>
          /\ pc = "item"
          /\ Head(loc.page) = [Item |-> feed[hist.prev.time + 1],
                               Time |-> hist.prev.time + 1]

\* a second run that resumes after a failed first one
C1_Witness ==
    /\ hist.prev.resume
    /\ pc = "item"
    /\ Len(hist.reqs) = 1
    /\ hist.step.kind = "none"
    /\ hist.prev.time >= 1

\* C2.  For an entry item the cursor becomes the item's time only when the
\* getevents call returned an event and the entry file was written; when the
\* call fails, returns no event, or the write fails, the loop returns a
\* failure at once and the cursor is still the time of the last item that
\* advanced it (the cursor read from the state when there is none).
C2_CursorOnlyAfterWrite ==
    hist.step.kind = "entry" =>
        IF hist.step.fetch \in Events /\ hist.step.writeOk
        THEN /\ ~hist.step.failed
             /\ jcx.lastSync = hist.step.time
             /\ jcx.shouldWriteDB
             /\ EventPath(hist.step.item) \in DOMAIN disk.entries
             /\ disk.entries[EventPath(hist.step.item)] = hist.step.fetch
             /\ EventPath(hist.step.item) \in hist.wroteEntries
        ELSE /\ hist.step.failed
             /\ pc = "finish"
             /\ ~loc.r.isNil
             /\ jcx.lastSync = hist.step.before
             /\ jcx.lastSync = IF hist.lastOk # 0 THEN hist.lastOk
                               ELSE jcx.origDbLastSync
             /\ jcx.lastSync # hist.step.time

\* the write of the second entry fails after the first entry was stored
C2_Witness ==
    /\ hist.step.kind = "entry"
    /\ hist.step.fetch \in Events
    /\ hist.step.failed
    /\ hist.lastOk # 0
    /\ pc = "finish"

\* C3.  Idempotent rerun.  In a run that starts with a state file, gets an
\* empty first page from the change feed, no comment and no user from the
\* meta requests and no comment from the body requests, the post loop ends
\* after its one request, nothing is written (no entry file, no comment file,
\* no state file), the cursor keeps its value, and the run ends without a
\* report: the archive is what it was before the run.
C3_IdempotentRerun ==
    /\ (pc \in {"meta", "body", "finish"} /\ hist.quiet /\ hist.disk0.db.exists) =>
          /\ disk = hist.disk0
          /\ ~jcx.shouldWriteDB
          /\ jcx.lastSync = hist.disk0.db.data.lastSync
          /\ hist.wroteEntries = {} /\ hist.wroteComments = {} /\ ~hist.wroteDb
          /\ hist.reqs[1] = <<"syncitems", jcx.lastSync>>
          /\ Len(hist.reqs) >= 2 => hist.reqs[2][1] = "meta"
          /\ loc.r.isNil
    /\ (pc = "done" /\ hist.summary.quiet /\ hist.summary.hadDb) =>
          /\ ~hist.summary.wrote
          /\ ~hist.summary.changed
          /\ out.report.isNil
          /\ out.exit = 0

\* a second run that found nothing new has ended
C3_Witness ==
    /\ pc = "done"
    /\ run = 2
    /\ hist.summary.quiet
    /\ hist.summary.hadDb

\* C8.  When an engine returned a failure and the state is dirty, dumpJournal
\* still writes the state: either the state file then holds the accumulated
\* state and the report is the engine's failure, or the write failed too and
\* the report lists the engine's failure first and the write's failure second;
\* and main exits with status 1 whenever there is a report.
C8_FailurePersistsDirtyState ==
    [][/\ (pc = "finish" /\ ~loc.r.isNil /\ jcx.shouldWriteDB) =>
             /\ \/ /\ disk'.db = [exists |-> TRUE, data |-> EncodeJournalDB(jcx)]
                   /\ out'.report = loc.r
                \/ /\ disk'.db = disk.db
                   /\ out'.report.combined =
                        <<loc.r, WrapErr("io", "failed to write journal db file")>>
                   /\ out'.stderr = AsText(loc.r) \o
                        << <<"failed to write journal db file", "io">> >>
             /\ out'.exit = 1
       /\ ~out'.report.isNil => out'.exit = 1
      ]_vars

\* both the post loop and the state write failed
C8_Witness ==
    /\ pc = "done"
    /\ Len(out.report.combined) = 2
    /\ Len(out.stderr) = 2
    /\ out.exit = 1

\* C9.  (The claim as stated.)  When dumpJournalComments returns a failure
\* after the meta pass learned comment metadata or users, what was learned is
\* in the journal state and the state is dirty, so that dumpJournal persists it.
C9_AbortKeepsLearned ==
    (/\ pc = "finish"
     /\ hist.failedIn \in {"meta", "body"}
     /\ (DOMAIN loc.newComments # {} \/ DOMAIN loc.newCommentUsers # {})) =>
        /\ jcx.shouldWriteDB
        /\ \A c \in DOMAIN loc.newComments :
              c \in DOMAIN jcx.commentMap /\ jcx.commentMap[c] = loc.newComments[c]
        /\ \A u \in DOMAIN loc.newCommentUsers :
              u \in DOMAIN jcx.userMap /\ jcx.userMap[u] = loc.newCommentUsers[u]


\* C9, what the code does.  When dumpJournalComments returns a failure, the
\* comment map and the user map of the journal state are still the ones
\* of the state file, whatever the meta pass learned.
C9_AbortDropsLearned ==
    (pc = "finish" /\ hist.failedIn \in {"meta", "body"}) =>
        /\ EncodeJournalDB(jcx).commentMeta = disk.db.data.commentMeta
        /\ EncodeJournalDB(jcx).users = disk.db.data.users
        /\ jcx.shouldWriteDB => hist.lastOk # 0

\* the body request failed after the meta pass learned a comment and a user
C9_Witness ==
    /\ pc = "finish"
    /\ hist.failedIn = "body"
    /\ DOMAIN loc.newComments # {}
    /\ DOMAIN loc.newCommentUsers # {}
    /\ ~jcx.shouldWriteDB

(***************************************************************************)
(* writeFileTempRename step by step (main.go 110-119)                       *)
(*                                                                          *)
(* ioutil.WriteFile opens the file with O_WRONLY|O_CREATE|O_TRUNC, writes   *)
(* the data and closes the file; a write may stop after any number of bytes.*)
(* os.Rename replaces the target in one step.  The process may be killed    *)
(* between any two steps.                                                   *)
(***************************************************************************)
MaxData == 2
Bytes == {1, 2}
Datas == SeqsUpTo(Bytes, MaxData)
File(data) == [exists |-> TRUE, data |-> data]

\* line 111: the temporary file is a sibling of the target
TmpPathSame(filePath) == filePath

TmpPath(filePath) == filePath \o ".tmp"

TargetPath == "f"
Paths == {TargetPath, TmpPath(TargetPath)}

WriterInit ==
    /\ wfs \in [Paths -> {Absent} \cup {File(d) : d \in {<<>>, <<1>>, <<2, 1>>}}]
    /\ wst = NoCall

\* writeFileTempRename(filePath, data) is called
WCall ==
    /\ wst.pc \in {"idle", "returned", "killed"}
    /\ \E data \in Datas :
          wst' = [NoCall EXCEPT !.pc = "open", !.path = TargetPath,
                                !.tmp = TmpPath(TargetPath), !.data = data,
                                !.old = wfs[TargetPath]]
    /\ UNCHANGED <<wfs, jvars, mvars, pvars, tvars, svars, evars, rvars>>

\* line 112, WriteFile: open with O_CREATE|O_TRUNC
WOpen ==
    /\ wst.pc = "open"
    /\ \E ok \in BOOLEAN :
          IF ok
          THEN /\ wfs' = [wfs EXCEPT ![wst.tmp] = File(<<>>)]
               /\ wst' = [wst EXCEPT !.pc = IF wst.data = <<>> THEN "close"
                                            ELSE "write"]
          ELSE /\ wfs' = wfs
               /\ wst' = [wst EXCEPT !.pc = "returned", !.failed = TRUE,
                                     !.ret = "err"]
    /\ UNCHANGED <<jvars, mvars, pvars, tvars, svars, evars, rvars>>

\* line 112, WriteFile: the next byte reaches the file, or the write fails
WWrite ==
    /\ wst.pc = "write"
    /\ \E ok \in BOOLEAN :
          IF ok
          THEN /\ wfs' = [wfs EXCEPT ![wst.tmp] =
                              File(Append(@.data, wst.data[wst.pos + 1]))]
               /\ wst' = [wst EXCEPT !.pos = @ + 1,
                                     !.pc = IF wst.pos + 1 = Len(wst.data)
                                            THEN "close" ELSE "write"]
          ELSE /\ wfs' = wfs
               /\ wst' = [wst EXCEPT !.pc = "close", !.err = TRUE,
                                     !.failed = TRUE]
    /\ UNCHANGED <<jvars, mvars, pvars, tvars, svars, evars, rvars>>

\* lines 112-114, WriteFile: close; the first error is returned
WClose ==
    /\ wst.pc = "close"
    /\ \E ok \in BOOLEAN :
          wst' = IF wst.err \/ ~ok
                 THEN [wst EXCEPT !.pc = "returned", !.failed = TRUE,
                                  !.ret = "err"]
                 ELSE [wst EXCEPT !.pc = "rename"]
    /\ UNCHANGED <<wfs, jvars, mvars, pvars, tvars, svars, evars, rvars>>

\* lines 115-118: os.Rename(tmp, filePath)
WRename ==
    /\ wst.pc = "rename"
    /\ \E ok \in BOOLEAN :
          IF ok
          THEN /\ wfs' = IF wst.tmp = wst.path THEN wfs
                         ELSE [wfs EXCEPT ![wst.path] = wfs[wst.tmp],
                                          ![wst.tmp] = Absent]
               /\ wst' = [wst EXCEPT !.pc = "returned", !.ret = "nil"]
          ELSE /\ wfs' = wfs
               /\ wst' = [wst EXCEPT !.pc = "returned", !.failed = TRUE,
                                     !.ret = "err"]
    /\ UNCHANGED <<jvars, mvars, pvars, tvars, svars, evars, rvars>>

\* the process is killed inside the call
WKill ==
    /\ wst.pc \in {"open", "write", "close", "rename"}
    /\ wst' = [wst EXCEPT !.pc = "killed"]
    /\ UNCHANGED <<wfs, jvars, mvars, pvars, tvars, svars, evars, rvars>>

InitWriter ==
    /\ ThrottleIdle
    /\ StoreIdle
    /\ EventIdle
    /\ RecordIdle
    /\ JournalIdle
    /\ MergeIdle
    /\ PicsIdle
    /\ WriterInit

NextWriter ==
    \/ WCall
    \/ WOpen
    \/ WWrite
    \/ WClose
    \/ WRename
    \/ WKill

SpecWriter == InitWriter /\ [][NextWriter]_vars

\* C7.  During and after a call of writeFileTempRename, whatever step fails
\* and wherever the process is killed, the file at the target path is the
\* complete old file or the complete new data: the data goes to the
\* ".tmp" sibling, the target is untouched until the rename, and the rename
\* puts the complete data in place.  A call in which a step failed returns
\* an error and leaves the old file; a call returns nil only with the new
\* data at the target.
C7_TempRenameAtomic ==
    wst.pc # "idle" =>
        /\ wst.tmp # wst.path
        /\ wfs[wst.path] \in {wst.old, File(wst.data)}
        /\ wst.pc \in {"open", "write", "close", "rename"} =>
              wfs[wst.path] = wst.old
        /\ wst.pc \in {"write", "close", "rename"} =>
              wfs[wst.tmp] = File(SubSeq(wst.data, 1, wst.pos))
        /\ wst.pc = "rename" => wfs[wst.tmp] = File(wst.data)
        /\ wst.pc = "returned" =>
              /\ wst.ret = "err" <=> wst.failed
              /\ wst.ret = "nil" <=> ~wst.failed
              /\ wst.ret = "nil" =>
                    wfs[wst.path] = File(wst.data) /\ wfs[wst.tmp] = Absent
              /\ wst.ret = "err" => wfs[wst.path] = wst.old

\* the process is killed in the middle of the write, over an existing file
C7_Witness ==
    /\ wst.pc = "killed"
    /\ wst.old.exists
    /\ wst.old # File(wst.data)
    /\ wfs[wst.tmp].exists
    /\ Len(wfs[wst.tmp].data) = 1
    /\ Len(wst.data) = 2


(***************************************************************************)
(* The comment files under any sequence of merges (main.go 1375-1422)       *)
(***************************************************************************)
\* the records dumpJournalComments may build for the comments of two posts
\* (one comment changes its state, the other its body)
MergeRecords ==
    [Id : {1}, State : {"", "D"}, User : {"u"}, ParentId : {""},
     Date : {"d"}, Subject : {""}, Body : {<<"b">>}]
    \cup
    [Id : {2}, State : {""}, User : {"u"}, ParentId : {""},
     Date : {"d"}, Subject : {""}, Body : {<<"b">>, <<"<">>}]

MergeInit ==
    /\ mfiles = EmptyMap
    /\ mlast = NoMerge

\* one fetched comment goes through lines 1375-1422
MergeStep ==
    /\ \E jitemid \in PostIds, record \in MergeRecords,
          outcome \in {"ok", "readerr", "writeerr"} :
          LET m == MergeComment(mfiles, jitemid, record, outcome)
          IN /\ mfiles' = m.files
             /\ mlast' = [done |-> TRUE, before |-> mfiles, jitemid |-> jitemid,
                          record |-> record, outcome |-> outcome,
                          wrote |-> m.wrote, r |-> m.r]
    /\ UNCHANGED <<jvars, wvars, pvars, tvars, svars, evars, rvars>>

InitMerge ==
    /\ ThrottleIdle
    /\ StoreIdle
    /\ EventIdle
    /\ RecordIdle
    /\ JournalIdle
    /\ WriterIdle
    /\ PicsIdle
    /\ MergeInit

NextMerge == MergeStep

SpecMerge == InitMerge /\ [][NextMerge]_vars

\* the records of the file of post jitemid in files, none when it is absent
RecordsOf(files, jitemid) ==
    IF jitemid \in DOMAIN files THEN XmlDecode(files[jitemid]) ELSE <<>>

\* the last merge found a record of the same id / the same record in its file
LastHasId ==
    \E i \in 1..Len(RecordsOf(mlast.before, mlast.jitemid)) :
        RecordsOf(mlast.before, mlast.jitemid)[i].Id = mlast.record.Id

LastHasSame ==
    \E i \in 1..Len(RecordsOf(mlast.before, mlast.jitemid)) :
        RecordsOf(mlast.before, mlast.jitemid)[i] = mlast.record

\* C4.  After any sequence of merges that starts from absent comment files,
\* no comment file holds two records of the same comment id.
C4_UniqueIdsPerFile ==
    \A j \in DOMAIN mfiles :
        \A a, b \in 1..Len(mfiles[j]) :
            XmlDecode(mfiles[j])[a].Id = XmlDecode(mfiles[j])[b].Id => a = b

\* a file of two records received a record whose id it already held
C4_Witness ==
    /\ mlast.done
    /\ LastHasId
    /\ mlast.wrote
    /\ Len(mfiles[mlast.jitemid]) = 2

\* C5.  A merge of a record that is in the file of its post with the same id,
\* state, user, parent id, date, subject and body leaves every comment file
\* as it was, writes nothing and appends nothing; and a merge writes a file
\* only when it appended the record (its id was not in the file) or replaced
\* the record of its id by a different one; without a write no file changes.
C5_IdenticalNoRewrite ==
    mlast.done =>
        LET before == RecordsOf(mlast.before, mlast.jitemid)
            after == RecordsOf(mfiles, mlast.jitemid)
        IN /\ LastHasSame =>
                 /\ ~mlast.wrote
                 /\ mfiles = mlast.before
                 /\ after = before
                 /\ mlast.outcome # "readerr" => mlast.r.isNil
           /\ mlast.wrote =>
                 /\ ~LastHasSame
                 /\ mlast.outcome = "ok"
                 /\ after # before
                 /\ IF LastHasId
                    THEN /\ Len(after) = Len(before)
                         /\ \E i \in 1..Len(after) :
                               after[i] = mlast.record /\ before[i] # mlast.record
                    ELSE after = Append(before, mlast.record)
           /\ ~mlast.wrote => mfiles = mlast.before

\* the same record, with a body that needs escaping, is merged a second time
C5_Witness ==
    /\ mlast.done
    /\ LastHasSame
    /\ mlast.outcome = "ok"
    /\ mlast.record.Body = <<"<">>
    /\ Len(mfiles[mlast.jitemid]) = 2

\* C6.  A merge of a record whose id is in the file of its post with another
\* content, when the file can be read and written, puts the fetched record at
\* the position of the old one; the file keeps its length and its other
\* records, in order, and the files of the other posts are not touched.
C6_OverwriteInPlace ==
    (mlast.done /\ mlast.outcome = "ok" /\ LastHasId /\ ~LastHasSame) =>
        LET before == RecordsOf(mlast.before, mlast.jitemid)
            after == RecordsOf(mfiles, mlast.jitemid)
            i == CHOOSE k \in 1..Len(before) : before[k].Id = mlast.record.Id
        IN /\ mlast.wrote
           /\ mlast.r.isNil
           /\ Len(after) = Len(before)
           /\ after[i] = mlast.record
           /\ \A k \in 1..Len(before) : k # i =>
                 /\ after[k] = before[k]
                 /\ mfiles[mlast.jitemid][k] = mlast.before[mlast.jitemid][k]
           /\ DOMAIN mfiles = DOMAIN mlast.before
           /\ \A j \in DOMAIN mfiles : j # mlast.jitemid =>
                 mfiles[j] = mlast.before[j]

\* the first of two records is replaced while another post has a file too
C6_Witness ==
    /\ mlast.done
    /\ mlast.outcome = "ok"
    /\ LastHasId
    /\ ~LastHasSame
    /\ Len(mfiles[mlast.jitemid]) = 2
    /\ RecordsOf(mfiles, mlast.jitemid)[1] = mlast.record
    /\ DOMAIN mfiles = PostIds


(***************************************************************************)
(* Account data and user pictures (main.go 378-482, 966-1094, 1468-1502)    *)
(***************************************************************************)
MaxPics == 1
MaxPicRuns == 2

Urls == {"", "a", "b"}
\* a picture keyword is a sequence of characters, the empty one is ""
Keywords == {<<>>, <<"k", "/">>}
FilenameChars == {"k", "_", "-"}
ContentTypes == {"", "image/png"}
PicData == {"p"}

\* what http.Get and ReadAll give for a picture (1032-1039)
Downloads ==
    {[ok |-> FALSE, data |-> "", ctype |-> ""]} \cup
    [ok : {TRUE}, data : PicData, ctype : ContentTypes]

\* the answer to the login call (980-1003): the call fails, an array of the
\* answer is broken, or the answer carries the keywords and the urls
LoginAnswers ==
    {[status |-> st, pickw |-> <<>>, pickwurl |-> <<>>, defaultpicurl |-> ""] :
        st \in {"callerr", "badarray"}} \cup
    [status : {"ok"}, pickw : SeqsUpTo(Keywords, MaxPics),
     pickwurl : SeqsUpTo(Urls, MaxPics), defaultpicurl : Urls]

\* lines 966-970
ConvertPictureKeywordToFilename(keyword) ==
    [i \in 1..Len(keyword) |->
        IF keyword[i] \in FilenameChars THEN keyword[i] ELSE "_"]

\* lines 1041-1048
Extension(ctype) == IF ctype = "image/png" THEN ".png" ELSE ".bin"

\* PictureFile without the counter in the name
PictureFileNoCounter(counter, keyword, ctype) ==
    <<"user-picture-", 0,
      IF keyword # <<>> THEN "-" ELSE "",
      IF keyword # <<>> THEN ConvertPictureKeywordToFilename(keyword) ELSE <<>>,
      Extension(ctype)>>

\* lines 1054-1058: Sprintf("user-picture-%d%s%s%s", ...)
PictureFile(counter, keyword, ctype) ==
    <<"user-picture-", counter,
      IF keyword # <<>> THEN "-" ELSE "",
      IF keyword # <<>> THEN ConvertPictureKeywordToFilename(keyword) ELSE <<>>,
      Extension(ctype)>>

\* lines 423-439: the rows of a table are written in key order, so the file
\* is determined by the set of rows
EncodeAccountData(a) ==
    [fileCounter |-> a.fileCounter,
     pictureDefaultUrl |-> a.pictureDefaultUrl,
     pictureUrlFileMap |->
        {<<u, a.pictureUrlFileMap[u]>> : u \in DOMAIN a.pictureUrlFileMap},
     pictureKeywordUrlMap |->
        {<<k, a.pictureKeywordUrlMap[k]>> : k \in DOMAIN a.pictureKeywordUrlMap}]

\* lines 455-476
DecodeAccountData(data) ==
    [fileCounter |-> data.fileCounter,
     pictureDefaultUrl |-> data.pictureDefaultUrl,
     pictureUrlFileMap |->
        [u \in {row[1] : row \in data.pictureUrlFileMap} |->
            (CHOOSE row \in data.pictureUrlFileMap : row[1] = u)[2]],
     pictureKeywordUrlMap |->
        [k \in {row[1] : row \in data.pictureKeywordUrlMap} |->
            (CHOOSE row \in data.pictureKeywordUrlMap : row[1] = k)[2]]]

\* lines 423-439
WriteAccountData(d, a, ok) ==
    IF ok
    THEN [disk |-> [d EXCEPT !.db = [exists |-> TRUE,
                                     data |-> EncodeAccountData(a)]],
          r |-> NilReport]
    ELSE [disk |-> d,
          r |-> WrapErr("io", "failed to write account data db file")]

\* readAccountData ignoring the account state file
ReadAccountDataFresh(d, readOk) == [acct |-> NoAccount, r |-> NilReport]

\* lines 441-482
ReadAccountData(d, readOk) ==
    IF ~d.db.exists THEN [acct |-> NoAccount, r |-> NilReport]
    ELSE IF ~readOk THEN [acct |-> NoAccount, r |-> WrapErr("io", "")]
    ELSE [acct |-> DecodeAccountData(d.db.data), r |-> NilReport]

\* the value Go reads from a map of strings: "" for a missing key
MapGet(m, k) == IF k \in DOMAIN m THEN m[k] ELSE <<>>

\* StorePictureUrl counting the file and returning a failure also when the
\* download failed
StorePictureUrlStrict(a, d, keywords, keywordIndex, url, dl, writeOk) ==
    IF keywordIndex >= 0 /\ keywords[keywordIndex + 1] = <<>>
    THEN [acct |-> a, disk |-> d, updated |-> FALSE, r |-> NilReport,
          download |-> "none", wrote |-> FALSE]
    ELSE [acct |-> [a EXCEPT !.fileCounter = @ + 1], disk |-> d,
          updated |-> FALSE, r |-> WrapErr("http", ""),
          download |-> IF dl.ok THEN "done" ELSE "failed", wrote |-> FALSE]

\* lines 1014-1078: the picture of an unknown url is downloaded and stored.
\* download tells whether http.Get was called and whether it gave the data
StorePictureUrl(a, d, keywords, keywordIndex, url, dl, writeOk) ==
    LET keyword == IF keywordIndex >= 0 THEN keywords[keywordIndex + 1] ELSE <<>>
        same == [acct |-> a, disk |-> d, updated |-> FALSE, r |-> NilReport,
                 download |-> "none", wrote |-> FALSE]
    IN IF keywordIndex >= 0 /\ keyword = <<>> THEN same
       ELSE IF ~dl.ok THEN [same EXCEPT !.download = "failed"]
       ELSE LET a1 == [a EXCEPT !.fileCounter = @ + 1]
                pictureFile == PictureFile(a1.fileCounter, keyword, dl.ctype)
            IN IF ~writeOk
               THEN [acct |-> a1, disk |-> d, updated |-> FALSE,
                     r |-> WrapErr("io", ""), download |-> "done",
                     wrote |-> FALSE]
               ELSE [acct |->
                        [a1 EXCEPT
                           !.pictureUrlFileMap = (url :> pictureFile) @@ @,
                           !.pictureDefaultUrl =
                               IF keyword = <<>> THEN url ELSE @,
                           !.pictureKeywordUrlMap =
                               IF keyword = <<>> THEN @
                               ELSE (keyword :> url) @@ @],
                     disk |-> [d EXCEPT !.pics = (pictureFile :> dl.data) @@ @],
                     updated |-> TRUE, r |-> NilReport, download |-> "done",
                     wrote |-> TRUE]

\* fetchAnsStorePictureUrl without the test for a known url
FetchAnsStorePictureUrlAlways(a, d, keywords, keywordIndex, url, dl, writeOk) ==
    IF url = ""
    THEN [acct |-> a, disk |-> d, updated |-> FALSE, r |-> NilReport,
          download |-> "none", wrote |-> FALSE]
    ELSE StorePictureUrl(a, d, keywords, keywordIndex, url, dl, writeOk)

\* lines 1008-1079: fetchAnsStorePictureUrl(keywordIndex, url); keywordIndex
\* is -1 for the default picture
FetchAnsStorePictureUrl(a, d, keywords, keywordIndex, url, dl, writeOk) ==
    IF url = "" \/ MapGet(a.pictureUrlFileMap, url) # <<>>
    THEN [acct |-> a, disk |-> d, updated |-> FALSE, r |-> NilReport,
          download |-> "none", wrote |-> FALSE]
    ELSE StorePictureUrl(a, d, keywords, keywordIndex, url, dl, writeOk)


PicsInit ==
    /\ acct = NoAccount
    /\ adisk \in {NoAccountDisk, [NoAccountDisk EXCEPT !.dir = TRUE]}
    /\ pst = NoPicRun
    /\ plast = NoFetch

\* main ended with report r (1496-1502)
PicsEnd(r) == [NoPicRun EXCEPT !.pc = "done", !.run = pst.run, !.r = r,
                               !.exit = Exit(r).exit]

\* mainImpl reads the account data (1474-1477)
PStart ==
    /\ pst.pc \in {"idle", "done"}
    /\ pst.run < MaxPicRuns
    /\ \E readOk \in BOOLEAN :
          LET rd == ReadAccountData(adisk, readOk)
          IN /\ acct' = rd.acct
             /\ pst' = IF rd.r.isNil
                       THEN [NoPicRun EXCEPT !.pc = "login", !.run = pst.run + 1]
                       ELSE [PicsEnd(rd.r) EXCEPT !.run = pst.run + 1]
    /\ plast' = NoFetch
    /\ UNCHANGED <<adisk, jvars, mvars, wvars, tvars, svars, evars, rvars>>

\* dumpAccountData up to the picture loop (976-1003)
PLogin ==
    /\ pst.pc = "login"
    /\ \E mkdirOk \in BOOLEAN, ans \in LoginAnswers :
          IF ~mkdirOk
          THEN /\ pst' = PicsEnd(WrapErr("io",
                             "failed to create directory for account data"))
               /\ adisk' = adisk
          ELSE /\ adisk' = [adisk EXCEPT !.dir = TRUE]
               /\ pst' =
                    IF ans.status = "callerr" THEN PicsEnd(WrapErr("rpc", ""))
                    ELSE IF ans.status = "badarray"
                    THEN PicsEnd(ReportMsg("no key in LJ flat response"))
                    ELSE IF Len(ans.pickw) # Len(ans.pickwurl)
                    THEN PicsEnd(ReportMsg("arrays have different lengths"))
                    ELSE [pst EXCEPT !.pc = "default", !.keywords = ans.pickw,
                                     !.urls = ans.pickwurl,
                                     !.defaultpicurl = ans.defaultpicurl]
    /\ UNCHANGED <<acct, plast, jvars, mvars, wvars, tvars, svars, evars, rvars>>

\* one call of fetchAnsStorePictureUrl and what the caller does with its
\* result (1081-1088)
PFetch(keywordIndex, url, nextpc) ==
    \E dl \in Downloads, writeOk \in BOOLEAN :
        LET f == FetchAnsStorePictureUrl(acct, adisk, pst.keywords,
                                         keywordIndex, url, dl, writeOk)
        IN /\ acct' = f.acct
           /\ adisk' = f.disk
           /\ plast' = [called |-> TRUE, url |-> url, acct0 |-> acct,
                        pics0 |-> adisk.pics, download |-> f.download,
                        wrote |-> f.wrote, r |-> f.r]
           /\ pst' = IF ~f.r.isNil THEN PicsEnd(f.r)
                     ELSE [pst EXCEPT !.pc = nextpc,
                                      !.idx = keywordIndex + 1,
                                      !.updated = @ \/ f.updated,
                                      !.failedDownload =
                                          @ \/ f.download = "failed"]

\* line 1081: the default picture
PDefault ==
    /\ pst.pc = "default"
    /\ PFetch(-1, pst.defaultpicurl, "urls")
    /\ UNCHANGED <<jvars, mvars, wvars, tvars, svars, evars, rvars>>

\* lines 1084-1088: the picture of the next keyword
PUrl ==
    /\ pst.pc = "urls"
    /\ pst.idx < Len(pst.urls)
    /\ PFetch(pst.idx, pst.urls[pst.idx + 1], "urls")
    /\ UNCHANGED <<jvars, mvars, wvars, tvars, svars, evars, rvars>>

\* lines 1090-1094 and the end of main: the account data is written when a
\* picture was stored
PFinish ==
    /\ pst.pc = "urls"
    /\ pst.idx = Len(pst.urls)
    /\ \E ok \in BOOLEAN :
          LET w == IF pst.updated THEN WriteAccountData(adisk, acct, ok)
                   ELSE [disk |-> adisk, r |-> NilReport]
          IN /\ adisk' = w.disk
             /\ pst' = PicsEnd(w.r)
    /\ UNCHANGED <<acct, plast, jvars, mvars, wvars, tvars, svars, evars, rvars>>

InitPics ==
    /\ ThrottleIdle
    /\ StoreIdle
    /\ EventIdle
    /\ RecordIdle
    /\ JournalIdle
    /\ MergeIdle
    /\ WriterIdle
    /\ PicsInit

NextPics ==
    \/ PStart
    \/ PLogin
    \/ PDefault
    \/ PUrl
    \/ PFinish

SpecPics == InitPics /\ [][NextPics]_vars

\* C10.  A call of fetchAnsStorePictureUrl for a url that is a key of the
\* url -> filename map calls no http.Get, leaves the file counter, the three
\* maps and the default url of the account data as they were, writes no
\* picture file and returns no report.
C10_PictureDedup ==
    (plast.called /\ plast.url \in DOMAIN plast.acct0.pictureUrlFileMap) =>
        /\ plast.download = "none"
        /\ ~plast.wrote
        /\ plast.r.isNil
        /\ acct = plast.acct0
        /\ acct.fileCounter = plast.acct0.fileCounter
        /\ adisk.pics = plast.pics0

\* a later run meets the url of a picture an earlier run stored
C10_Witness ==
    /\ plast.called
    /\ plast.url \in DOMAIN plast.acct0.pictureUrlFileMap
    /\ pst.run = 2
    /\ plast.acct0.fileCounter >= 1


\* the counter of a is not below the one of b and a keeps every url ->
\* filename entry of b
KeepsPictures(a, b) ==
    /\ a.fileCounter >= b.fileCounter
    /\ \A u \in DOMAIN b.pictureUrlFileMap :
          /\ u \in DOMAIN a.pictureUrlFileMap
          /\ a.pictureUrlFileMap[u] = b.pictureUrlFileMap[u]

\* the account data a run would read from the disk d (lines 441-476)
PersistedAccount(d) ==
    IF d.db.exists THEN DecodeAccountData(d.db.data) ELSE NoAccount

\* C11, as stated.  In every step of every sequence of picture sync runs,
\* neither the file counter in memory nor the persisted one decreases, and
\* no url -> filename entry, in memory or persisted, is changed or removed.
C11_NeverRegresses ==
    [][/\ KeepsPictures(acct', acct)
       /\ KeepsPictures(PersistedAccount(adisk'),
                        PersistedAccount(adisk))]_vars

\* C11, amended.  The persisted file counter never decreases and a persisted
\* url -> filename entry is never changed or removed; within a run the same
\* holds of the account data in memory, which is never behind the persisted
\* one.  A run starts from the persisted account data (from empty account
\* data when there is no file), whatever the run before had in memory.
C11_PersistedNeverRegresses ==
    [][/\ KeepsPictures(PersistedAccount(adisk'),
                        PersistedAccount(adisk))
       /\ pst.pc \notin {"idle", "done"} => KeepsPictures(acct', acct)
       /\ pst'.pc \notin {"idle", "done"} =>
             KeepsPictures(acct', PersistedAccount(adisk'))
       /\ pst'.pc = "login" => acct' = PersistedAccount(adisk)
      ]_vars

\* a run starts with counter 0 although the run before, which failed, left a
\* picture file
C11_Witness ==
    /\ pst.run = 2
    /\ pst.pc = "login"
    /\ acct.fileCounter = 0
    /\ DOMAIN adisk.pics # {}


(***************************************************************************)
(* The request throttle (main.go 788-801, 926-963, 1031)                    *)
(*                                                                          *)
(* Times are in milliseconds.  The program sends its requests one after the *)
(* other, so a request enters RoundTrip after the one before was sent.      *)
(***************************************************************************)
MinimalTimeBetweenRequests == 250
MaxRequests == 3
\* the time that passes between two requests of the program, and the time
\* time.Sleep may sleep longer than asked
Delays == {0, 100, 250}
Slacks == {0, 50}
\* the callers of the session's client: callLJFlatInterface (841), the
\* XML-RPC client (1137-1140), fetchCommentData (1300)
SessionOrigins == {"flat", "xmlrpc", "export"}

\* lines 945-954: the time RoundTrip sleeps for a request that enters at
\* newRequestTime
SleepTime(t, newRequestTime) ==
    IF ~t.isZero /\
       newRequestTime - t.lastRequestTime < MinimalTimeBetweenRequests
    THEN MinimalTimeBetweenRequests - (newRequestTime - t.lastRequestTime)
    ELSE 0

\* lines 946-954: a request of the session's client enters RoundTrip
TRoundTrip ==
    /\ thr.pc = "idle"
    /\ Len(thr.arrived) < MaxRequests
    /\ \E d \in Delays, origin \in SessionOrigins :
          LET newRequestTime == thr.now + d
          IN thr' = [thr EXCEPT
                       !.pc = "sleep",
                       !.now = newRequestTime,
                       !.wake = newRequestTime + SleepTime(thr, newRequestTime),
                       !.isZero = FALSE,
                       !.lastRequestTime = newRequestTime,
                       !.arrived = Append(@, [at |-> newRequestTime,
                                              origin |-> origin])]
    /\ UNCHANGED <<jvars, mvars, wvars, pvars, svars, evars, rvars>>

\* lines 951 and 956: the sleep, if any, ends and the request is handed to
\* the transport
TSend ==
    /\ thr.pc = "sleep"
    /\ \E slack \in IF thr.wake > thr.now THEN Slacks ELSE {0} :
          thr' = [thr EXCEPT
                    !.pc = "idle",
                    !.now = thr.wake + slack,
                    !.sent = Append(@, [at |-> thr.wake + slack,
                                        origin |-> thr.arrived[Len(thr.arrived)].origin,
                                        throttled |-> TRUE])]
    /\ UNCHANGED <<jvars, mvars, wvars, pvars, svars, evars, rvars>>

\* line 1031: a picture is requested with http.Get, the default client
TPictureGet ==
    /\ thr.pc = "idle"
    /\ Len(thr.arrived) < MaxRequests
    /\ \E d \in Delays :
          thr' = [thr EXCEPT
                    !.now = thr.now + d,
                    !.arrived = Append(@, [at |-> thr.now + d,
                                           origin |-> "picture"]),
                    !.sent = Append(@, [at |-> thr.now + d,
                                        origin |-> "picture",
                                        throttled |-> FALSE])]
    /\ UNCHANGED <<jvars, mvars, wvars, pvars, svars, evars, rvars>>

InitThrottle ==
    /\ StoreIdle
    /\ EventIdle
    /\ RecordIdle
    /\ JournalIdle
    /\ MergeIdle
    /\ WriterIdle
    /\ PicsIdle
    /\ thr = NewSession

NextThrottle ==
    \/ TRoundTrip
    \/ TSend
    \/ TPictureGet

SpecThrottle == InitThrottle /\ [][NextThrottle]_vars

\* the requests handed to the transport by RoundTrip, in order
ThrottledSent == SelectSeq(thr.sent, LAMBDA x : x.throttled)

\* C12, as stated.  Any two consecutive requests that pass through RoundTrip
\* are handed to the transport at least 250 ms apart.
C12_ThrottleSpacing ==
    \A i \in 1..(Len(ThrottledSent) - 1) :
        ThrottledSent[i + 1].at - ThrottledSent[i].at >= MinimalTimeBetweenRequests


\* the requests that entered RoundTrip, in order
ThrottledArrived == SelectSeq(thr.arrived, LAMBDA x : x.origin # "picture")

\* C12, what the code does.  A request that passes through RoundTrip is handed
\* to the transport at least 250 ms after the request before it entered
\* RoundTrip (lastRequestTime is the time of entry, line 954), which may be
\* long before that request was sent.
C12_SpacedFromEntry ==
    \A i \in 2..Len(ThrottledSent) :
        ThrottledSent[i].at - ThrottledArrived[i - 1].at
            >= MinimalTimeBetweenRequests

\* the third of three requests is sent less than 250 ms after the second
C12_Witness ==
    /\ Len(ThrottledSent) = 3
    /\ ThrottledSent[2].at - ThrottledSent[1].at >= MinimalTimeBetweenRequests
    /\ ThrottledSent[3].at - ThrottledSent[2].at < MinimalTimeBetweenRequests


OneEntryRun ==
    /\ Len(feed) = 1
    /\ ItemKind(feed[1]) = "entry"
    /\ Len(hist.reqs) >= 1
    /\ hist.reqs[1] = <<"syncitems", 0>>

\* the line of main's output for a failed write of the state file
StateWriteFailure == <<"failed to write journal db file", "io">>

\* C17.  When the change feed returns one page with the single entry item
\* "L-<n>" of time T and then an empty page, post sync has written exactly
\* one entry file, named L-<n>, the cursor is T and the state is dirty; the
\* end of dumpJournal then writes the state file, which holds cursor T unless
\* that write fails, and such a failure is reported.
C17_SingleEntry ==
    [][/\ (OneEntryRun /\ (pc \in {"meta", "body"}
                            \/ (pc = "finish" /\ hist.failedIn # "posts"))) =>
             /\ DOMAIN disk.entries = {<<"L", ItemNumber(feed[1])>>}
             /\ hist.wroteEntries = DOMAIN disk.entries
             /\ jcx.lastSync = 1
             /\ jcx.shouldWriteDB
             /\ SubSeq(hist.reqs, 1, 3) =
                   <<(<<"syncitems", 0>>),
                     (<<"getevents", ItemNumber(feed[1])>>),
                     (<<"syncitems", 1>>)>>
       /\ (OneEntryRun /\ pc = "finish" /\ hist.failedIn # "posts") =>
             \/ disk'.db.exists /\ disk'.db.data.lastSync = 1
             \/ /\ disk'.db = disk.db
                /\ \E i \in 1..Len(out'.stderr) : out'.stderr[i] = StateWriteFailure
      ]_vars

\* a first run over a feed of one entry ended without failure and left the
\* entry file and the cursor
C17_Witness ==
    /\ run = 1
    /\ pc = "done"
    /\ out.exit = 0
    /\ Len(feed) = 1
    /\ ItemKind(feed[1]) = "entry"
    /\ DOMAIN disk.entries = {<<"L", ItemNumber(feed[1])>>}
    /\ disk.db.exists
    /\ disk.db.data.lastSync = 1

\* an identifier of the form type letter, '-', decimal number
WellFormedId(id) ==
    /\ Len(id) >= 3
    /\ id[1] \in {"L", "C"}
    /\ id[2] = "-"
    /\ \A i \in 3..Len(id) : id[i] \in Digits

\* the post loop is at an item whose identifier is not well formed
AtMalformedItem == pc = "item" /\ ~WellFormedId(Head(loc.page).Item)

\* C23.  For every item whose identifier is not of the form type letter, '-',
\* decimal number (identifiers of one or two characters included) the post
\* loop sends no request, writes no file, leaves the cursor and the dirty
\* flag as they are, does not fail or crash, and goes on with the next item
\* of the page.
C23_MalformedOnlyLogged ==
    [][AtMalformedItem =>
          /\ pc' \in {"item", "posts"}
          /\ loc'.page = Tail(loc.page)
          /\ loc'.r.isNil
          /\ hist'.reqs = hist.reqs
          /\ <<disk', jcx', out'>> = <<disk, jcx, out>>
      ]_vars

\* C23, as the code has it: a malformed identifier of two characters or more
\* is skipped as the claim says; for an identifier shorter than two
\* characters the argument item.Item[1] of the warning is out of range and
\* the process panics, writing nothing more.
C23_ShortIdPanics ==
    [][AtMalformedItem =>
          IF Len(Head(loc.page).Item) >= 2
          THEN /\ pc' \in {"item", "posts"}
               /\ loc'.page = Tail(loc.page)
               /\ loc'.r.isNil
               /\ hist'.reqs = hist.reqs
               /\ <<disk', jcx', out'>> = <<disk, jcx, out>>
          ELSE /\ pc' = "crashed"
               /\ out' = Panic
               /\ disk' = disk
      ]_vars

\* the feed starts with the one-character identifier "L": the first run
\* panicked at that item, and so did the second
C23_Witness ==
    /\ pc = "crashed"
    /\ run = 2
    /\ out.exit = 2
    /\ feed[1] = <<"L">>
    /\ disk.entries = EmptyMap
    /\ disk.comments = EmptyMap

\* One run of dumpJournal over any feed, from any archive directory
InitPosts ==
    /\ feed \in Feeds
    /\ remote = OneComment
    /\ pc = "idle"
    /\ run = MaxRuns - 1
    /\ disk \in InitDisks
    /\ jcx = NewJournalContext
    /\ loc = NoLocals
    /\ out = Exit(NilReport)
    /\ hist = NewHist(disk, NoPrev)
    /\ ThrottleIdle
    /\ StoreIdle
    /\ EventIdle
    /\ RecordIdle
    /\ MergeIdle
    /\ WriterIdle
    /\ PicsIdle

NextPosts ==
    \/ StartRun
    \/ PostsFetch
    \/ PostsItem
    \/ CommentsMeta
    \/ CommentsBody
    \/ Finish

SpecPosts == InitPosts /\ [][NextPosts]_vars

\* the post loop is at a well-formed item whose type letter is not 'L'
AtOtherItem ==
    /\ pc = "item"
    /\ WellFormedId(Head(loc.page).Item)
    /\ Head(loc.page).Item[1] # "L"

\* C26.  A well-formed item whose type letter is not 'L' sends no request
\* and writes no file; the cursor becomes the item's time and the state is
\* marked dirty, the loop goes on with the next item.
C26_OtherItemAdvances ==
    [][AtOtherItem =>
          /\ jcx' = [jcx EXCEPT !.lastSync = Head(loc.page).Time,
                                !.shouldWriteDB = TRUE]
          /\ hist'.reqs = hist.reqs
          /\ hist'.wroteEntries = hist.wroteEntries
          /\ disk' = disk
          /\ loc'.r.isNil
          /\ loc'.page = Tail(loc.page)
          /\ pc' \in {"item", "posts"}
      ]_vars

\* the feed is the single item C-1: the run asked for the changes after 0 and
\* then after 1 without a getevents call, and wrote the cursor 1 and no entry
C26_Witness ==
    /\ pc = "done"
    /\ feed = <<(<<"C", "-", "1">>)>>
    /\ hist.summary.time = 1
    /\ disk.entries = EmptyMap
    /\ disk.db.exists
    /\ disk.db.data.lastSync = 1

\* The post loop against a remote that answers every request: the
\* syncitems call returns the page of the changes after the cursor, the
\* getevents call returns an event or none
PostsFetchAnswered == PostsFetch /\ pc' # "finish"

PostsItemAnswered == PostsItem /\ hist'.step.fetch # "err"

NextAnswered ==
    \/ StartRun
    \/ PostsFetchAnswered
    \/ PostsItemAnswered
    \/ CommentsMeta
    \/ CommentsBody
    \/ Finish

\* the process keeps running while it has a step to take
SpecAnswered == InitPosts /\ [][NextAnswered]_vars /\ WF_vars(NextAnswered)

\* the post loop has ended: without failure (the comments follow), with a
\* failure, or with the process
PostsEnded == pc \in {"meta", "body", "finish", "done", "crashed"}

\* C24.  Against a remote that answers every request and returns for a
\* cursor the page of the items changed after it, a run of dumpJournalPosts
\* ends, whatever identifiers the pages hold.
C24_PostsTerminate == (pc = "posts") ~> PostsEnded

\* C24, as the code has it: a skipped item leaves the cursor where it was, so
\* the loop ends when the feed holds well-formed identifiers only.
C24_WellFormedFeedTerminates ==
    (\A i \in 1..Len(feed) : WellFormedId(feed[i])) => ((pc = "posts") ~> PostsEnded)

\* the page after cursor 0 held malformed identifiers only: the loop asked for
\* the changes after 0 again and got the same page
C24_Witness ==
    /\ pc = "item"
    /\ jcx.lastSync = 0
    /\ loc.page = ListChanges(feed, 0)
    /\ \A i \in 1..Len(feed) : ItemKind(feed[i]) = "skip"
    /\ Len(hist.reqs) >= 2
    /\ hist.reqs[1] = <<"syncitems", 0>>
    /\ hist.reqs[2] = <<"syncitems", 0>>

(***************************************************************************)
(* Comment synchronisation against a journal with several comments          *)
(***************************************************************************)
\* journals with the comments 1..n of user 1, whose name the remote reports
\* as "u" or, after a rename, as "v", and with declared maximal comment id m
CommentRemotes ==
    {[meta |-> {[Id |-> i, PosterId |-> 1, State |-> "A"] : i \in 1..n},
      users |-> {[Id |-> 1, User |-> u] : u \in UserNames},
      maxIds |-> {m},
      bodies |-> {[Id |-> i, PosterId |-> 1, State |-> "", JItemId |-> 1,
                   ParentId |-> "", Subject |-> "", Body |-> <<"b">>,
                   Date |-> "d"] : i \in 1..n}] :
        n \in 0..MaxCommentId, m \in 0..MaxCommentId}

\* the journal directory as earlier runs left it: without comments, or
\* with comment 1 of user 1, known as "u"
CommentDisks ==
    {[dir |-> TRUE, db |-> EmptyDB, entries |-> EmptyMap, comments |-> EmptyMap,
      py |-> PyNone],
     [dir |-> TRUE,
      db |-> [exists |-> TRUE,
              data |-> EncodeJournalDB(
                          [lastSync |-> 0, userMap |-> (1 :> "u"),
                           commentMap |-> (1 :> [posterId |-> 1, state |-> "A"])])],
      entries |-> EmptyMap,
      comments |-> (1 :> XmlEncode(<<[Id |-> 1, State |-> "", User |-> "u",
                                      ParentId |-> "", Date |-> "d",
                                      Subject |-> "", Body |-> <<"b">>]>>)),
      py |-> PyNone]}

\* the last run of the model, over an empty change feed
InitComments ==
    /\ feed = <<>>
    /\ remote \in CommentRemotes
    /\ pc = "idle"
    /\ run = MaxRuns - 1
    /\ disk \in CommentDisks
    /\ jcx = NewJournalContext
    /\ loc = NoLocals
    /\ out = Exit(NilReport)
    /\ hist = NewHist(disk, NoPrev)
    /\ ThrottleIdle
    /\ StoreIdle
    /\ EventIdle
    /\ RecordIdle
    /\ MergeIdle
    /\ WriterIdle
    /\ PicsIdle

NextComments ==
    \/ StartRun
    \/ PostsFetch
    \/ CommentsMeta
    \/ CommentsBody
    \/ Finish

SpecComments == InitComments /\ [][NextComments]_vars

\* the maxid every comment_meta answer of the journal declares
DeclaredMaxId == CHOOSE m \in remote.maxIds : TRUE

\* the highest comment id in the state file d holds, -1 when it holds none
StoredMaxId(d) ==
    LET ids == DOMAIN DecodeJournalDB(d.db.data).commentMap
    IN IF ids = {} THEN -1 ELSE MaxOf(ids)

\* the request a step added to the log, when the log had room
Logged(kind, arg) ==
    Len(hist.reqs) < MaxReqLog => hist'.reqs = Append(hist.reqs, <<kind, arg>>)

\* C18.  The comment pagination protocol.  With F the highest comment id of
\* the persisted journal state (-1 when it has none): both frontiers start at
\* F; every meta request carries startid = meta frontier + 1; an answer
\* raises the meta frontier to the highest id seen; the meta pass stops after
\* an answer exactly when the frontier has reached the declared maxid; the
\* body pass starts with its frontier still at F, every body request carries
\* startid = body frontier + 1, the body frontier never drops, and the pass
\* goes on exactly while the body frontier is below the final meta frontier;
\* no meta request follows a body request.  (A run that panics when it
\* merges what it learned leaves no request log.)
C18_Pagination ==
    [][/\ (pc # "meta" /\ pc' = "meta") =>
             /\ loc'.newMaxId = StoredMaxId(disk')
             /\ loc'.maxFetchedId = StoredMaxId(disk')
       /\ pc = "meta" =>
             /\ Logged("meta", loc.newMaxId + 1)
             /\ loc'.maxFetchedId = loc.maxFetchedId
             /\ loc'.maxFetchedId = StoredMaxId(disk')
       /\ (pc = "meta" /\ pc' \in {"meta", "body"}) =>
             /\ loc'.newMaxId = MaxOf({loc.newMaxId} \cup DOMAIN loc'.newComments)
             /\ pc' = "body" <=> loc'.newMaxId >= DeclaredMaxId
       /\ pc = "body" =>
             /\ pc' # "crashed" => Logged("body", loc.maxFetchedId + 1)
             /\ pc' # "meta"
       /\ (pc = "body" /\ pc' = "body") =>
             /\ loc'.newMaxId = loc.newMaxId
             /\ loc'.maxFetchedId >= loc.maxFetchedId
             /\ loc'.maxFetchedId < loc.newMaxId
       /\ (pc = "body" /\ pc' = "finish" /\ loc'.r.isNil) =>
             loc'.maxFetchedId >= loc.newMaxId
       /\ \A i, k \in 1..Len(hist'.reqs) :
             (i < k /\ hist'.reqs[i][1] = "body") => hist'.reqs[k][1] # "meta"
      ]_vars

\* two meta requests and then the second body request is due: the journal
\* declares maxid 2, the meta pass went from -1 over 1 to 2, the body pass
\* restarted at -1 and is at 1
C18_Witness ==
    /\ pc = "body"
    /\ loc.maxStoredCommentId = -1
    /\ loc.newMaxId = 2
    /\ loc.maxFetchedId = 1
    /\ hist.reqs = <<(<<"syncitems", 0>>), (<<"meta", 0>>), (<<"meta", 2>>),
                     (<<"body", 0>>)>>

\* C19.  A call of fetchAnsStorePictureUrl whose download fails writes no
\* picture file, leaves the file counter and the maps of the account data as
\* they were, so that the url is no key of the url -> filename map, and
\* returns no report: dumpAccountData goes on with the next picture.  A call
\* for a url that is no key of the map, with a keyword that is not empty,
\* always attempts the download, so the url is attempted again by the next
\* run.
C19_DownloadFailureSkips ==
    /\ (plast.called /\ plast.download = "failed") =>
          /\ ~plast.wrote
          /\ adisk.pics = plast.pics0
          /\ acct = plast.acct0
          /\ plast.url \notin DOMAIN acct.pictureUrlFileMap
          /\ plast.r.isNil
          /\ pst.pc = "urls" \/ (pst.pc = "done" /\ pst.run >= 1)
          /\ pst.pc = "done" => \A i \in 1..Len(AsText(pst.r)) :
                                   AsText(pst.r)[i][2] # "http"
    /\ (pst.pc = "urls" /\ plast.called /\ plast.url # ""
          /\ plast.url \notin DOMAIN plast.acct0.pictureUrlFileMap
          /\ (pst.idx = 0 \/ pst.keywords[pst.idx] # <<>>)) =>
          plast.download # "none"

\* in a second run the download of the default picture had failed, and the
\* download of the picture of the keyword after it fails as well
C19_Witness ==
    /\ pst.run = 2
    /\ pst.pc = "urls"
    /\ pst.idx = 1
    /\ plast.called
    /\ plast.download = "failed"
    /\ pst.defaultpicurl # ""
    /\ pst.defaultpicurl \notin DOMAIN acct.pictureUrlFileMap

\* the user directory of the state file d holds
StoredUsers(d) == DecodeJournalDB(d.db.data).userMap

\* m2 has every id of m1 with the name it has in m1
KeepsUsers(m2, m1) ==
    \A k \in DOMAIN m1 : k \in DOMAIN m2 /\ m2[k] = m1[k]

\* C20.  The user directory is append-only: the merge at the end of the
\* comment passes removes no user id from jcx.db.userMap and changes the name
\* of none, and no step does so to the user directory in the state file.
C20_UserDirAppendOnly ==
    [][/\ (pc = "body" /\ pc' = "finish") => KeepsUsers(jcx'.userMap, jcx.userMap)
       /\ KeepsUsers(StoredUsers(disk'), StoredUsers(disk))
      ]_vars

\* C20, as the code has it: no user id is removed, in memory or in the state
\* file; after the merge an id the meta pass reported has the reported name
\* and every other id the name it had.
C20_UserDirKeepsIds ==
    [][/\ (pc = "body" /\ pc' = "finish") =>
             /\ DOMAIN jcx'.userMap =
                   IF loc'.r.isNil
                   THEN DOMAIN jcx.userMap \cup DOMAIN loc.newCommentUsers
                   ELSE DOMAIN jcx.userMap
             /\ \A k \in DOMAIN jcx.userMap :
                   jcx'.userMap[k] =
                      IF loc'.r.isNil /\ k \in DOMAIN loc.newCommentUsers
                      THEN loc.newCommentUsers[k] ELSE jcx.userMap[k]
       /\ DOMAIN StoredUsers(disk) \subseteq DOMAIN StoredUsers(disk')
      ]_vars

\* user 1 is "u" in the state file the run started from and "v" in the
\* journal state after the merge
C20_Witness ==
    /\ pc = "finish"
    /\ loc.r.isNil
    /\ StoredUsers(hist.disk0) = (1 :> "u")
    /\ jcx.userMap = (1 :> "v")

(***************************************************************************)
(* The state files as sequences of linedb items (main.go 408-574)           *)
(*                                                                          *)
(* The linedb package is not part of the sources.  Of it the model keeps    *)
(* what the calls in main.go and the format's contract give: the encoder    *)
(* emits the items in call order, comments and empty lines are no items,    *)
(* the decoder yields the well-formed items in file order, stops at         *)
(* malformed input, and GetError() then returns the parse error.            *)
(***************************************************************************)
MaxRows == 2

\* url and keyword strings as character sequences, with the byte values
StoreKeys == {<<>>, <<"a">>, <<"a", "/">>, <<"b">>}
CharCode == ("/" :> 47) @@ ("1" :> 49) @@ ("a" :> 97) @@ ("b" :> 98)

RECURSIVE StringLess(_, _)
\* the order of Go strings, used by sort.Strings (415)
StringLess(a, b) ==
    IF b = <<>> THEN FALSE
    ELSE IF a = <<>> THEN TRUE
    ELSE IF a[1] # b[1] THEN CharCode[a[1]] < CharCode[b[1]]
    ELSE StringLess(Tail(a), Tail(b))

\* sortIds.Less (394)
IdLess(a, b) == a < b

\* the orders in which `for key := range m` may give the keys of a map
RangeOrders(m) ==
    {s \in [1..Cardinality(DOMAIN m) -> DOMAIN m] : IsInjective(s)}

\* sort.Strings on the keys of a map, which are distinct: each key moves to
\* the place given by the number of keys below it
SortStrings(keys) ==
    [i \in 1..Len(keys) |->
        keys[CHOOSE n \in 1..Len(keys) :
                Cardinality({j \in 1..Len(keys) :
                                StringLess(keys[j], keys[n])}) = i - 1]]

\* sort.Sort(sortIds) on the keys of a map, likewise
SortInt64s(keys) ==
    [i \in 1..Len(keys) |->
        keys[CHOOSE n \in 1..Len(keys) :
                Cardinality({j \in 1..Len(keys) :
                                IdLess(keys[j], keys[n])}) = i - 1]]

Scalar(name, value) == [kind |-> "scalar", name |-> name, value |-> value]
Table(name, rows) == [kind |-> "table", name |-> name, rows |-> rows]

\* addSortedMapKeyValue without sort.Strings
AddMapKeyValue(tableName, m, range) ==
    Table(tableName, [i \in 1..Len(range) |-> <<range[i], m[range[i]]>>])

\* lines 408-421; range is the order the loop at 411 visits the keys
AddSortedMapKeyValue(tableName, m, range) ==
    LET keys == SortStrings(range)
    IN Table(tableName, [i \in 1..Len(keys) |-> <<keys[i], m[keys[i]]>>])

\* lines 424-432
EncodeAccountItems(a, rangeUrls, rangeKeywords) ==
    <<Scalar("fileCounter", a.fileCounter),
      Scalar("pictureDefaultUrl", a.pictureDefaultUrl),
      AddSortedMapKeyValue("pictureUrlFileMap", a.pictureUrlFileMap, rangeUrls),
      AddSortedMapKeyValue("pictureKeywordUrlMap", a.pictureKeywordUrlMap,
                           rangeKeywords)>>

\* lines 485-514
EncodeJournalItems(db, rangeUsers, rangeComments) ==
    LET userIds == SortInt64s(rangeUsers)
        commentIds == SortInt64s(rangeComments)
    IN <<Scalar("lastSync", db.lastSync),
         Table("users", [i \in 1..Len(userIds) |->
                            <<userIds[i], db.userMap[userIds[i]]>>]),
         Table("commentMeta", [i \in 1..Len(commentIds) |->
                            <<commentIds[i],
                              db.commentMap[commentIds[i]].posterId,
                              db.commentMap[commentIds[i]].state>>])>>

\* m after m[row[1]] = row[2] for the rows in file order
AssignRows(m, rows) ==
    [k \in DOMAIN m \cup RowKeys(rows) |->
        IF k \in RowKeys(rows) THEN LastRow(rows, k)[2] ELSE m[k]]

\* the rows of commentMeta as pairs of the id and the commentMeta value
CommentMetaOf(rows) ==
    [i \in 1..Len(rows) |->
        <<rows[i][1], [posterId |-> rows[i][2], state |-> rows[i][3]]>>]

RECURSIVE DecodeAccountItems(_, _)
\* the loop at 458-477 over the items the decoder yields
DecodeAccountItems(items, a) ==
    IF items = <<>> THEN a
    ELSE LET d == Head(items)
             b == CASE d.kind = "scalar" /\ d.name = "fileCounter" ->
                         [a EXCEPT !.fileCounter = d.value]
                    [] d.kind = "scalar" /\ d.name = "pictureDefaultUrl" ->
                         [a EXCEPT !.pictureDefaultUrl = d.value]
                    [] d.kind = "table" /\ d.name = "pictureUrlFileMap" ->
                         [a EXCEPT !.pictureUrlFileMap =
                                       AssignRows(@, d.rows)]
                    [] d.kind = "table" /\ d.name = "pictureKeywordUrlMap" ->
                         [a EXCEPT !.pictureKeywordUrlMap =
                                       AssignRows(@, d.rows)]
                    [] OTHER -> a
         IN DecodeAccountItems(Tail(items), b)

\* DecodeJournalItems that stops after the first table
RECURSIVE DecodeJournalItemsOneTable(_, _)
DecodeJournalItemsOneTable(items, db) ==
    IF items = <<>> THEN db
    ELSE LET d == Head(items)
         IN IF d.kind = "scalar" /\ d.name = "lastSync"
            THEN DecodeJournalItemsOneTable(Tail(items),
                                            [db EXCEPT !.lastSync = d.value])
            ELSE IF d.kind = "table" /\ d.name = "users"
            THEN [db EXCEPT !.userMap = AssignRows(@, d.rows)]
            ELSE db

RECURSIVE DecodeJournalItems(_, _)
\* the loop at 549-570 over the items the decoder yields
DecodeJournalItems(items, db) ==
    IF items = <<>> THEN db
    ELSE LET d == Head(items)
             b == CASE d.kind = "scalar" /\ d.name = "lastSync" ->
                         [db EXCEPT !.lastSync = d.value]
                    [] d.kind = "table" /\ d.name = "users" ->
                         [db EXCEPT !.userMap = AssignRows(@, d.rows)]
                    [] d.kind = "table" /\ d.name = "commentMeta" ->
                         [db EXCEPT !.commentMap =
                                        AssignRows(@, CommentMetaOf(d.rows))]
                    [] OTHER -> db
         IN DecodeJournalItems(Tail(items), b)

\* the zero journalDB with the maps made at 546-547
ZeroJournalDB == [lastSync |-> 0, userMap |-> EmptyMap, commentMap |-> EmptyMap]

\* the accountData made at 442-446
ZeroAccountData == [fileCounter |-> 0, pictureDefaultUrl |-> <<>>,
                    pictureUrlFileMap |-> EmptyMap,
                    pictureKeywordUrlMap |-> EmptyMap]

\* readJournalDB on a file with content (545-573): d.GetError() is not called
ReadJournalItems(file) ==
    [r |-> NilReport, back |-> DecodeJournalItems(file.items, ZeroJournalDB)]

\* readAccountData on an existing file (457-481)
ReadAccountItems(file) ==
    IF file.bad
    THEN [r |-> WrapErr("parse", "error while parsing account data file"),
          back |-> <<>>]
    ELSE [r |-> NilReport,
          back |-> DecodeAccountItems(file.items, ZeroAccountData)]

\* maps with at most MaxRows keys
MapsOf(K, V) ==
    UNION {[D -> V] : D \in {D \in SUBSET K : Cardinality(D) <= MaxRows}}

JournalStates ==
    [lastSync : 0..1,
     userMap : MapsOf(1..MaxRows, {"u"}),
     commentMap : MapsOf(1..MaxRows, {[posterId |-> 0, state |-> ""],
                                      [posterId |-> 1, state |-> "D"]})]

AccountStates ==
    [fileCounter : 0..1,
     pictureDefaultUrl : {<<>>, <<"a">>},
     pictureUrlFileMap : MapsOf(StoreKeys, {"f"}),
     pictureKeywordUrlMap : MapsOf(StoreKeys, {<<"a">>, <<"b">>})]

\* writeJournalDB of a journal state
SWriteJournal ==
    /\ store.pc = "idle"
    /\ \E db \in JournalStates :
         \E ru \in RangeOrders(db.userMap), rc \in RangeOrders(db.commentMap) :
            store' = [store EXCEPT !.pc = "written", !.kind = "journal", !.mem = db,
                             !.file = [items |-> EncodeJournalItems(db, ru, rc),
                                       bad |-> FALSE]]
    /\ UNCHANGED <<jvars, mvars, wvars, pvars, tvars, evars, rvars>>

\* writeAccountData of an account state
SWriteAccount ==
    /\ store.pc = "idle"
    /\ \E a \in AccountStates :
         \E ru \in RangeOrders(a.pictureUrlFileMap),
            rk \in RangeOrders(a.pictureKeywordUrlMap) :
            store' = [store EXCEPT !.pc = "written", !.kind = "account", !.mem = a,
                             !.file = [items |-> EncodeAccountItems(a, ru, rk),
                                       bad |-> FALSE]]
    /\ UNCHANGED <<jvars, mvars, wvars, pvars, tvars, evars, rvars>>

\* the file is damaged between the runs: well-formed items remain up to
\* some point, malformed bytes follow
SDamage ==
    /\ store.pc = "written"
    /\ ~store.file.bad
    /\ \E n \in 0..Len(store.file.items) :
         store' = [store EXCEPT !.file = [items |-> SubSeq(store.file.items, 1, n),
                                    bad |-> TRUE]]
    /\ UNCHANGED <<jvars, mvars, wvars, pvars, tvars, evars, rvars>>

\* readJournalDB of the next run
SReadJournal ==
    /\ store.pc = "written"
    /\ store.kind = "journal"
    /\ LET got == ReadJournalItems(store.file)
       IN store' = [store EXCEPT !.pc = "read", !.back = got.back, !.r = got.r]
    /\ UNCHANGED <<jvars, mvars, wvars, pvars, tvars, evars, rvars>>

\* readAccountData of the next run
SReadAccount ==
    /\ store.pc = "written"
    /\ store.kind = "account"
    /\ LET got == ReadAccountItems(store.file)
       IN store' = [store EXCEPT !.pc = "read", !.back = got.back, !.r = got.r]
    /\ UNCHANGED <<jvars, mvars, wvars, pvars, tvars, evars, rvars>>

InitStore ==
    /\ StoreIdle
    /\ EventIdle
    /\ RecordIdle
    /\ ThrottleIdle
    /\ JournalIdle
    /\ MergeIdle
    /\ WriterIdle
    /\ PicsIdle

NextStore ==
    \/ SWriteJournal
    \/ SWriteAccount
    \/ SDamage
    \/ SReadJournal
    \/ SReadAccount

SpecStore == InitStore /\ [][NextStore]_vars

\* C14.  Reading back the state file that writeJournalDB or writeAccountData
\* produced gives no failure and a state equal to the written one: the same
\* cursor, user directory and comment map, respectively the same file
\* counter, default picture url, url -> filename map and keyword -> url map.
C14_StateRoundTrip ==
    (store.pc = "read" /\ ~store.file.bad) => (store.r.isNil /\ store.back = store.mem)

\* both kinds of state, with tables of more than one row, were read back
C14_Witness ==
    /\ store.pc = "read"
    /\ ~store.file.bad
    /\ store.kind = "journal"
    /\ Cardinality(DOMAIN store.mem.userMap) >= 2
    /\ Cardinality(DOMAIN store.mem.commentMap) >= 2
    /\ store.back = store.mem

\* the rows of table d are in strictly ascending order of their keys
AscendingIds(d) ==
    \A i \in 1..(Len(d.rows) - 1) : d.rows[i][1] < d.rows[i + 1][1]

AscendingStrings(d) ==
    \A i \in 1..(Len(d.rows) - 1) : StringLess(d.rows[i][1], d.rows[i + 1][1])

\* C15.  The file writeJournalDB emits has the rows of users and commentMeta
\* in strictly ascending numeric order of the ids, the file writeAccountData
\* emits has the rows of both tables in strictly ascending lexicographic
\* order of the urls and keywords, and the file is the same for every order
\* in which the maps could be iterated.
C15_Deterministic ==
    (store.pc = "written" /\ ~store.file.bad) =>
        IF store.kind = "journal"
        THEN /\ AscendingIds(store.file.items[2])
             /\ AscendingIds(store.file.items[3])
             /\ \A ru \in RangeOrders(store.mem.userMap),
                   rc \in RangeOrders(store.mem.commentMap) :
                    EncodeJournalItems(store.mem, ru, rc) = store.file.items
        ELSE /\ AscendingStrings(store.file.items[3])
             /\ AscendingStrings(store.file.items[4])
             /\ \A ru \in RangeOrders(store.mem.pictureUrlFileMap),
                   rk \in RangeOrders(store.mem.pictureKeywordUrlMap) :
                    EncodeAccountItems(store.mem, ru, rk) = store.file.items

\* an account file with two urls of which one is a prefix of the other, and
\* two keywords
C15_Witness ==
    /\ store.pc = "written"
    /\ ~store.file.bad
    /\ store.kind = "account"
    /\ {<<"a">>, <<"a", "/">>} \subseteq DOMAIN store.mem.pictureUrlFileMap
    /\ Cardinality(DOMAIN store.mem.pictureKeywordUrlMap) >= 2

\* C16.  Reading a malformed state file returns a failure to the caller, for
\* the journal state file and for the account state file alike.
C16_MalformedFails ==
    (store.pc = "read" /\ store.file.bad) => ~store.r.isNil

\* C16, as the code has it: readAccountData returns the parse failure and no
\* account data, while readJournalDB returns no failure together with the
\* state decoded from the items in front of the malformed input.
C16_OnlyAccountFails ==
    (store.pc = "read" /\ store.file.bad) =>
        IF store.kind = "account"
        THEN ~store.r.isNil /\ store.back = <<>>
        ELSE /\ store.r.isNil
             /\ store.back = DecodeJournalItems(store.file.items, ZeroJournalDB)

\* a journal state file damaged after the cursor was read without failure
\* and gave a state without the users and comments that had been written
C16_Witness ==
    /\ store.pc = "read"
    /\ store.file.bad
    /\ store.kind = "journal"
    /\ store.r.isNil
    /\ store.mem.lastSync = 1
    /\ store.back.lastSync = 1
    /\ DOMAIN store.mem.commentMap # {}
    /\ DOMAIN store.back.commentMap = {}


(***************************************************************************)
(* The entry file of an event (main.go 675-786, 1204-1210)                  *)
(***************************************************************************)
\* An event is a map from keys to values.  A key is a character sequence; a
\* value is nil, an int, a string, a map, an array of values, or a value of
\* another Go type ("other", such as a bool or a float64)
Tags == {<<"a">>, <<"1">>}
LeafValues == {[t |-> "nil"], [t |-> "int", v |-> 12],
               [t |-> "string", v |-> <<"x", "<">>], [t |-> "other"]}
InnerMaps == {[t |-> "map", m |-> EmptyMap]} \cup
             {[t |-> "map", m |-> (k :> v)] : k \in Tags, v \in LeafValues}
ArrayElems == {[t |-> "string", v |-> <<"x", "<">>], [t |-> "other"],
               [t |-> "map", m |-> (<<"a">> :> [t |-> "nil"])],
               [t |-> "map", m |-> (<<"1">> :> [t |-> "nil"])]}
Arrays == {[t |-> "array", a |-> a] :
              a \in [1..1 -> ArrayElems] \cup [1..2 -> ArrayElems]}
EventValues == LeafValues \cup InnerMaps \cup Arrays
LJEvents == UNION {[K -> EventValues] : K \in SUBSET Tags}

\* lines 683-696, for the characters of the model
IsValidXmlTagName(s) ==
    \A j \in 1..Len(s) :
        \/ s[j] \in {"a", "b", "_"}
        \/ j # 1 /\ s[j] \in Digits \cup {"-", "."}

RECURSIVE EscapeXmlValue(_)
\* addEscapeXmlValue (699-715): the bytes it adds to the buffer
EscapeXmlValue(s) ==
    IF s = <<>> THEN <<>>
    ELSE (CASE Head(s) = "<" -> <<"&", "l", "t", ";">>
            [] Head(s) = ">" -> <<"&", "g", "t", ";">>
            [] Head(s) = "&" -> <<"&", "a", "m", "p", ";">>
            [] OTHER -> <<Head(s)>>) \o EscapeXmlValue(Tail(s))

RECURSIVE AppendInt(_)
\* strconv.AppendInt(_, v, 10) for v >= 0
AppendInt(v) ==
    LET digit == CHOOSE c \in Digits : DigitVal(c) = v % 10
    IN IF v < 10 THEN <<digit>> ELSE AppendInt(v \div 10) \o <<digit>>

RECURSIVE SerializeMap(_, _), SerializeTagValue(_, _, _), SerializeKeys(_, _, _), SerializeArray(_, _, _)

\* serializeTagValue (743-773): the report it returns and the buffer after it
SerializeTagValue(buf, tag, value) ==
    LET b1 == buf \o <<"<">> \o tag
        b2 == b1 \o <<">">>
        close(b) == b \o <<"<", "/">> \o tag \o <<">", "\n">>
    IN CASE value.t = "nil" ->
              [r |-> NilReport, buf |-> b1 \o <<"/", ">", "\n">>]
         [] value.t = "int" ->
              [r |-> NilReport, buf |-> close(b2 \o AppendInt(value.v))]
         [] value.t = "string" ->
              [r |-> NilReport, buf |-> close(b2 \o EscapeXmlValue(value.v))]
         [] value.t = "map" ->
              LET sm == SerializeMap(b2 \o <<"\n">>, value.m)
              IN IF ~sm.r.isNil THEN sm
                 ELSE [r |-> NilReport, buf |-> close(sm.buf)]
         [] OTHER ->
              [r |-> ReportMsg("unsupported type in received LJEvent"),
               buf |-> b2]

\* lines 734-737: the elements of an array, the reports are dropped
SerializeArray(buf, tag, a) ==
    IF a = <<>> THEN buf
    ELSE SerializeArray(SerializeTagValue(buf, tag, Head(a)).buf, tag, Tail(a))

\* the loop at 731-741 over the sorted keys: the report of serializeTagValue
\* is dropped, what it wrote stays in the buffer
SerializeKeys(buf, m, keys) ==
    IF keys = <<>> THEN buf
    ELSE LET value == m[Head(keys)]
         IN SerializeKeys(
               IF value.t = "array"
               THEN SerializeArray(buf, Head(keys), value.a)
               ELSE SerializeTagValue(buf, Head(keys), value).buf,
               m, Tail(keys))

\* serializeMap (717-741)
SerializeMap(buf, m) ==
    IF \E key \in DOMAIN m : ~IsValidXmlTagName(key)
    THEN [r |-> ReportMsg("cannot serialize map key as XML name"), buf |-> buf]
    ELSE [r |-> NilReport,
          buf |-> SerializeKeys(buf, m,
                     SortStrings(CHOOSE range \in RangeOrders(m) : TRUE))]

\* writeLJEventDump (677-785) for an event given as a map: the report, and
\* the bytes of the entry file when it was written; ok is the outcome of
\* writeFileTempRename
WriteLJEventDumpMap(event, ok) ==
    LET sm == SerializeMap(<<"xml.Header", "<", "event", ">", "\n">>, event)
    IN IF ~sm.r.isNil THEN [r |-> sm.r, written |-> FALSE, file |-> <<>>]
       ELSE IF ~ok THEN [r |-> WrapErr("io", ""), written |-> FALSE, file |-> <<>>]
       ELSE [r |-> NilReport, written |-> TRUE,
             file |-> sm.buf \o <<"<", "/", "event", ">", "\n">>]

\* lines 1204-1210 for the entry item of time 1, from cursor 0
EDump ==
    /\ ev.pc = "idle"
    /\ \E event \in LJEvents, ok \in BOOLEAN :
          LET w == WriteLJEventDumpMap(event, ok)
          IN ev' = [pc |-> "done", event |-> event, r |-> w.r,
                    file |-> w.file, written |-> w.written,
                    lastSync |-> IF w.r.isNil THEN 1 ELSE 0,
                    shouldWriteDB |-> w.r.isNil]
    /\ UNCHANGED <<jvars, mvars, wvars, pvars, tvars, svars, rvars>>

\* the next item
ENext ==
    /\ ev.pc = "done"
    /\ ev.r.isNil
    /\ ev' = NoEvent
    /\ UNCHANGED <<jvars, mvars, wvars, pvars, tvars, svars, rvars>>

InitEvent ==
    /\ EventIdle
    /\ RecordIdle
    /\ StoreIdle
    /\ ThrottleIdle
    /\ JournalIdle
    /\ MergeIdle
    /\ WriterIdle
    /\ PicsIdle

NextEvent ==
    \/ EDump
    \/ ENext

SpecEvent == InitEvent /\ [][NextEvent]_vars

\* a value that can be written as the content of a tag
SerializableValue(value) ==
    \/ value.t \in {"nil", "int", "string"}
    \/ /\ value.t = "map"
       /\ \A k \in DOMAIN value.m :
             IsValidXmlTagName(k) /\ value.m[k].t \in {"nil", "int", "string"}

\* an event all of whose keys are tag names and all of whose values, at any
\* depth, are of a supported type
Serializable(event) ==
    \A k \in DOMAIN event :
        /\ IsValidXmlTagName(k)
        /\ IF event[k].t = "array"
           THEN \A i \in 1..Len(event[k].a) : SerializableValue(event[k].a[i])
           ELSE SerializableValue(event[k])

\* C22.  For an event that cannot be serialized (a key that is no tag name or
\* a value of unsupported type, at the top level, in an array or in a nested
\* map) writeLJEventDump returns a failure and writes no entry file, and the
\* post loop does not advance the cursor to the item's time.
C22_UnserializableFails ==
    (ev.pc = "done" /\ ~Serializable(ev.event)) =>
        /\ ~ev.r.isNil
        /\ ~ev.written
        /\ ev.lastSync = 0

\* C22, as the code has it: writeLJEventDump fails without writing exactly
\* when a top-level key is no tag name or the write of the file fails; for
\* every other event the file is written, whatever its values are, and the
\* cursor advances.
C22_OnlyTopLevelKeysFail ==
    ev.pc = "done" =>
        /\ (\E k \in DOMAIN ev.event : ~IsValidXmlTagName(k)) =>
              ~ev.r.isNil /\ ~ev.written /\ ev.lastSync = 0
        /\ (\A k \in DOMAIN ev.event : IsValidXmlTagName(k)) =>
              /\ ev.written <=> ev.r.isNil
              /\ ev.lastSync = (IF ev.written THEN 1 ELSE 0)
              /\ ev.r.isNil \/ ev.r.err = "io"

\* an event with a value of unsupported type under a valid key was written
\* to the entry file, cut off after the opening tag, and the cursor advanced
C22_Witness ==
    /\ ev.pc = "done"
    /\ ev.event = (<<"a">> :> [t |-> "other"])
    /\ ev.written
    /\ ev.file = <<"xml.Header", "<", "event", ">", "\n", "<", "a", ">",
                   "<", "/", "event", ">", "\n">>
    /\ ev.lastSync = 1

(***************************************************************************)
(* The comment passes against a remote that answers every request          *)
(***************************************************************************)
CommentsMetaAnswered == CommentsMeta /\ pc' # "finish"

CommentsBodyAnswered == CommentsBody /\ loc'.r.err # "http"

NextCommentsAnswered ==
    \/ StartRun
    \/ PostsFetchAnswered
    \/ CommentsMetaAnswered
    \/ CommentsBodyAnswered
    \/ Finish

\* the process keeps running while it has a step to take
SpecCommentsAnswered ==
    InitComments /\ [][NextCommentsAnswered]_vars /\ WF_vars(NextCommentsAnswered)

\* dumpJournalComments has returned, or the process has ended
CommentsEnded == pc \in {"finish", "done", "crashed"}

\* C25.  Against a remote that answers every request both comment passes
\* end, whatever the chunks hold.
C25_PassesTerminate == (pc \in {"meta", "body"}) ~> CommentsEnded

\* C25, as the code has it: a pass sends another request exactly while its
\* frontier is below its target, and a chunk without an id above the frontier
\* leaves the frontier where it was, so the same request is sent again.
C25_PassesEndAtTarget ==
    [][/\ (pc = "meta" /\ pc' = "meta") =>
             /\ loc'.newMaxId < DeclaredMaxId
             /\ loc'.newMaxId >= loc.newMaxId
             /\ Logged("meta", loc.newMaxId + 1)
       /\ (pc = "meta" /\ pc' = "body") => loc'.newMaxId >= DeclaredMaxId
       /\ (pc = "body" /\ pc' = "body") =>
             /\ loc'.maxFetchedId < loc.newMaxId
             /\ loc'.maxFetchedId >= loc.maxFetchedId
             /\ Logged("body", loc.maxFetchedId + 1)
       /\ (pc = "body" /\ pc' = "finish" /\ loc'.r.isNil) =>
             loc'.maxFetchedId >= loc.newMaxId
      ]_vars

\* the journal has no comment and the meta answers declare maxid 1: the run
\* without stored comments sent comment_meta with startid 0 four times and is
\* about to send it again
C25_Witness ==
    /\ pc = "meta"
    /\ remote.meta = {}
    /\ DeclaredMaxId = 1
    /\ loc.newMaxId = -1
    /\ hist.reqs = <<(<<"syncitems", 0>>), (<<"meta", 0>>), (<<"meta", 0>>),
                     (<<"meta", 0>>)>>


(***************************************************************************)
(* The record of a fetched comment (main.go 1349-1370)                      *)
(***************************************************************************)
\* what the meta pass of a run, or the state file, may know of the comments
CommentMetaMaps ==
    UNION {[K -> [posterId : {1}, state : MetaStates]] : K \in SUBSET CommentIds}
\* and of the users
UserMaps == UNION {[K -> UserNames] : K \in SUBSET (PosterIds \ {0})}

\* a fetched comment of post 1 with what this run and the state file know
RecordInputs ==
    {[NoResolve EXCEPT !.pc = "fetched", !.c = c,
                       !.newComments = nc, !.newCommentUsers = nu,
                       !.commentMap = cm, !.userMap = um] :
        c \in {x \in LJComment : x.JItemId = 1},
        nc \in CommentMetaMaps, nu \in UserMaps,
        cm \in CommentMetaMaps, um \in UserMaps}

\* the record is built
RMake ==
    /\ rec.pc = "fetched"
    /\ rec' = [rec EXCEPT
                  !.pc = "made",
                  !.record = MakeRecord(rec.c,
                                [newComments |-> rec.newComments,
                                 newCommentUsers |-> rec.newCommentUsers],
                                [commentMap |-> rec.commentMap,
                                 userMap |-> rec.userMap])]
    /\ UNCHANGED <<jvars, mvars, wvars, pvars, tvars, svars, evars>>

InitRecord ==
    /\ rec \in RecordInputs
    /\ EventIdle
    /\ StoreIdle
    /\ ThrottleIdle
    /\ JournalIdle
    /\ MergeIdle
    /\ WriterIdle
    /\ PicsIdle

NextRecord == RMake

SpecRecord == InitRecord /\ [][NextRecord]_vars

\* C27.  The state of the record of a comment fetched with an empty state
\* is the state the meta pass of this run returned for its id, otherwise the
\* state the persisted comment map holds for it, otherwise empty; a state the
\* body carries is kept.  The user of the record of a comment with a poster id
\* other than 0 is the name this run's meta pass gave for the poster,
\* otherwise the name in the persisted user map, otherwise empty.  The other
\* fields are those of the fetched comment.
C27_FieldResolution ==
    rec.pc = "made" =>
        LET c == rec.c
            id == c.Id
            p == c.PosterId
        IN /\ c.State # "" => rec.record.State = c.State
           /\ (c.State = "" /\ id \in DOMAIN rec.newComments) =>
                 rec.record.State = rec.newComments[id].state
           /\ (c.State = "" /\ id \notin DOMAIN rec.newComments
                            /\ id \in DOMAIN rec.commentMap) =>
                 rec.record.State = rec.commentMap[id].state
           /\ (c.State = "" /\ id \notin DOMAIN rec.newComments
                            /\ id \notin DOMAIN rec.commentMap) =>
                 rec.record.State = ""
           /\ (p # 0 /\ p \in DOMAIN rec.newCommentUsers) =>
                 rec.record.User = rec.newCommentUsers[p]
           /\ (p # 0 /\ p \notin DOMAIN rec.newCommentUsers
                     /\ p \in DOMAIN rec.userMap) =>
                 rec.record.User = rec.userMap[p]
           /\ (p # 0 /\ p \notin DOMAIN rec.newCommentUsers
                     /\ p \notin DOMAIN rec.userMap) =>
                 rec.record.User = ""
           /\ <<rec.record.Id, rec.record.ParentId, rec.record.Subject,
                rec.record.Date, rec.record.Body>> =
              <<c.Id, c.ParentId, c.Subject, c.Date, c.Body>>

\* a comment fetched with an empty state, known to this run's meta pass as
\* deleted and to the state file as active, its poster known to this run as
\* "v" and to the state file as "u": the record is deleted, by "v"
C27_Witness ==
    /\ rec.pc = "made"
    /\ rec.c.State = ""
    /\ rec.c.Id = 1
    /\ rec.c.PosterId = 1
    /\ rec.newComments = (1 :> [posterId |-> 1, state |-> "D"])
    /\ rec.commentMap = (1 :> [posterId |-> 1, state |-> "A"])
    /\ rec.newCommentUsers = (1 :> "v")
    /\ rec.userMap = (1 :> "u")
    /\ rec.record.State = "D"
    /\ rec.record.User = "v"

(***************************************************************************)
(* The first run on a fresh journal (main.go 522-574, 1429-1449)            *)
(***************************************************************************)
\* neither journal.linedb nor a file of ljdump.py; the directory may be absent
FreshDisk(d) == ~d.db.exists /\ d.py = PyNone /\ d.entries = EmptyMap
                /\ d.comments = EmptyMap

\* a run that started on a fresh journal is under way
FreshRun == pc \in {"posts", "item", "meta", "body", "finish"} /\ FreshDisk(hist.disk0)

\* C28.  On a fresh journal dumpJournal seeds an empty state with usable
\* user and comment maps and starts post sync unless a local read fails; it
\* creates no state file before a request has succeeded; and a run that
\* learned comment metadata or users merges them into the state, marks it
\* dirty and goes on to persist it, without a crash.
C28_FreshJournalRuns ==
    [][/\ (pc = "idle" /\ FreshDisk(disk) /\ pc' = "done") =>
             out'.report.err = "io" /\ out'.report.message = ""
       /\ (pc = "idle" /\ FreshDisk(disk)) => disk'.db = disk.db
       /\ (pc = "idle" /\ FreshDisk(disk) /\ pc' = "posts") =>
             /\ jcx'.lastSync = 0
             /\ jcx'.userMap = EmptyMap /\ ~jcx'.userMapNil
             /\ jcx'.commentMap = EmptyMap /\ ~jcx'.commentMapNil
       /\ FreshRun => pc' # "crashed" \/ pc = "item"
       /\ (FreshRun /\ pc = "body" /\ pc' = "finish" /\ loc'.r.isNil
             /\ (DOMAIN loc.newComments # {} \/ DOMAIN loc.newCommentUsers # {})) =>
             /\ jcx'.shouldWriteDB
             /\ jcx'.commentMap = loc.newComments
             /\ jcx'.userMap = loc.newCommentUsers
      ]_vars

\* C28, as the code has it: readJournalDB writes the state file of the empty
\* state before the directory is created and before any request, and fails
\* when that write fails; it leaves the two maps nil, so the merge of
\* anything the comment passes learned panics and only a run that learned
\* nothing ends them without failure.
C28_FreshJournalAsCoded ==
    [][/\ (pc = "idle" /\ FreshDisk(disk) /\ ~disk.dir) =>
             pc' = "done" /\ out'.exit = 1 /\ disk' = disk
       /\ (pc = "idle" /\ FreshDisk(disk) /\ pc' = "posts") =>
             /\ disk'.db = EmptyDB
             /\ jcx'.lastSync = 0
             /\ jcx'.userMapNil /\ jcx'.commentMapNil
       /\ (FreshRun /\ pc = "body" /\ pc' = "finish" /\ loc'.r.isNil) =>
             DOMAIN loc.newComments = {} /\ DOMAIN loc.newCommentUsers = {}
       /\ (FreshRun /\ pc = "body" /\ pc' = "crashed") =>
             DOMAIN loc.newComments # {} \/ DOMAIN loc.newCommentUsers # {}
      ]_vars

\* the run on a fresh journal archived the comment it fetched and then
\* panicked in the merge: the state file is the one written at the start
C28_Witness ==
    /\ pc = "crashed"
    /\ out.exit = 2
    /\ disk.py = PyNone
    /\ disk.db = EmptyDB
    /\ disk.entries = EmptyMap
    /\ DOMAIN disk.comments = {1}

(***************************************************************************)
(* The account state file at the end of picture sync (main.go 1078-1093)    *)
(***************************************************************************)
\* a step ends picture sync after the login answer was accepted
PicsLoopEnds == pst.pc \in {"default", "urls"} /\ pst'.pc = "done"

\* the account state file holds the account data a
AccountWritten(d, a) == d.db = [exists |-> TRUE, data |-> EncodeAccountData(a)]

\* C29.  Picture sync ends with the account state file written from the
\* account data in memory, or with the failure of that write, when a new
\* picture was recorded during the run, also when the run ends with the
\* failed write of a later picture; it leaves the file alone when no picture
\* was recorded.
C29_PersistFollowsDirty ==
    [][PicsLoopEnds =>
          IF pst.updated
          THEN \/ AccountWritten(adisk', acct')
               \/ /\ pst'.r.message = "failed to write account data db file"
                  /\ adisk'.db = adisk.db
          ELSE adisk'.db = adisk.db
      ]_vars

\* C29, as the code has it: the file is written, when a picture was
\* recorded, only by a run whose picture loop returned no failure; a failed
\* picture write ends dumpAccountData at once and leaves the file as it was,
\* whatever was recorded before.
C29_FailureSkipsPersist ==
    [][PicsLoopEnds =>
          IF plast'.r.isNil
          THEN IF pst.updated
               THEN \/ AccountWritten(adisk', acct')
                    \/ /\ pst'.r.message = "failed to write account data db file"
                       /\ adisk'.db = adisk.db
               ELSE adisk' = adisk
          ELSE /\ adisk'.db = adisk.db
               /\ pst'.r = plast'.r
               /\ plast'.r.err = "io"
               /\ acct'.fileCounter = acct.fileCounter + 1
               /\ acct'.pictureUrlFileMap = acct.pictureUrlFileMap
      ]_vars

\* the default picture was stored and recorded, then the write of the
\* keyword's picture failed: the run ended without an account state file
C29_Witness ==
    /\ pst.pc = "done"
    /\ pst.run = 1
    /\ ~plast.r.isNil
    /\ DOMAIN plast.acct0.pictureUrlFileMap # {}
    /\ DOMAIN adisk.pics # {}
    /\ acct.fileCounter = 2
    /\ ~adisk.db.exists

(***************************************************************************)
(* Which requests pass through the throttle (main.go 801, 841, 1031,        *)
(* 1137-1140, 1300)                                                         *)
(***************************************************************************)
\* C30.  Every request the program has sent, whatever its origin, went
\* through RoundTrip: it was handed to the transport by RoundTrip after
\* RoundTrip had read the last-request time and set it to the time the
\* request entered.
C30_AllThrottled ==
    /\ \A i \in 1..Len(thr.sent) : thr.sent[i].throttled
    /\ thr.arrived # <<>> =>
          /\ ~thr.isZero
          /\ thr.lastRequestTime = thr.arrived[Len(thr.arrived)].at

\* C30, as the code has it: the requests of the session's client (the flat
\* interface, XML-RPC, the comment export) go through RoundTrip and set the
\* last-request time; a picture download uses http.Get, is sent at once and
\* leaves the last-request time as it was.
C30_SessionRequestsThrottled ==
    /\ \A i \in 1..Len(thr.sent) :
          thr.sent[i].throttled <=> thr.sent[i].origin \in SessionOrigins
    /\ ThrottledArrived # <<>> =>
          /\ ~thr.isZero
          /\ thr.lastRequestTime = ThrottledArrived[Len(ThrottledArrived)].at
    /\ ThrottledArrived = <<>> => thr.isZero

\* a picture was requested 100 ms after the login call and sent at once; the
\* last-request time is still the time of the login call
C30_Witness ==
    /\ thr.pc = "idle"
    /\ Len(thr.sent) = 2
    /\ thr.sent[1].origin = "flat"
    /\ thr.sent[2].origin = "picture"
    /\ thr.sent[2].at - thr.sent[1].at = 100
    /\ thr.lastRequestTime = thr.arrived[1].at

(***************************************************************************)
(* Runs against a journal that answers from its comments and may grow       *)
(***************************************************************************)
\* the journal with comments 1..n, all by user 1, known as "u"
GrowingRemote(n) ==
    [meta |-> {[Id |-> i, PosterId |-> 1, State |-> "A"] : i \in 1..n},
     users |-> {[Id |-> 1, User |-> "u"]},
     maxIds |-> {n},
     bodies |-> {[Id |-> i, PosterId |-> 1, State |-> "", JItemId |-> 1,
                  ParentId |-> "", Subject |-> "", Body |-> <<"b">>,
                  Date |-> "d"] : i \in 1..n}]

\* the ids from startid on, lowest first, as many as a chunk holds
ChunkIds(ids, startid) ==
    LET above == SortedIds({i \in ids : i >= startid})
    IN SubSeq(above, 1, IF Len(above) < MaxChunk THEN Len(above) ELSE MaxChunk)

\* the answer to comment_meta with startid (1293-1298): the comments from
\* startid on, the users of the journal, and the highest comment id as maxid
MetaAnswer(rm, startid) ==
    LET ids == ChunkIds({c.Id : c \in rm.meta}, startid)
    IN [MaxId |-> DeclaredMaxId,
        Comments |-> [i \in 1..Len(ids) |-> CHOOSE c \in rm.meta : c.Id = ids[i]],
        UserMaps |-> IF ids = <<>> THEN <<>>
                     ELSE <<CHOOSE u \in rm.users : TRUE>>]

\* the answer to comment_body with startid
BodyAnswer(rm, startid) ==
    LET ids == ChunkIds({c.Id : c \in rm.bodies}, startid)
    IN [i \in 1..Len(ids) |-> CHOOSE c \in rm.bodies : c.Id = ids[i]]

CommentsMetaAnswer == CommentsMetaOn({MetaAnswer(remote, loc.newMaxId + 1)})

CommentsBodyAnswer == CommentsBodyOn({BodyAnswer(remote, loc.maxFetchedId + 1)})

\* somebody posts a comment while a run is under way or between two runs
RemotePost ==
    /\ DeclaredMaxId < MaxCommentId
    /\ pc \in {"meta", "body", "done"}
    /\ remote' = GrowingRemote(DeclaredMaxId + 1)
    /\ UNCHANGED <<pc, run, feed, disk, jcx, loc, out, hist>>
    /\ UNCHANGED <<mvars, wvars, pvars, tvars, svars, evars, rvars>>

\* the last two runs of the model, over an empty change feed; the journal
\* holds the comments the archive has, and maybe more
InitGrowing ==
    /\ feed = <<>>
    /\ pc = "idle"
    /\ run = MaxRuns - 2
    /\ disk \in CommentDisks
    /\ remote \in {GrowingRemote(n) : n \in 0..MaxCommentId}
    /\ disk.comments # EmptyMap => DeclaredMaxId >= 1
    /\ jcx = NewJournalContext
    /\ loc = NoLocals
    /\ out = Exit(NilReport)
    /\ hist = NewHist(disk, NoPrev)
    /\ ThrottleIdle
    /\ StoreIdle
    /\ EventIdle
    /\ RecordIdle
    /\ MergeIdle
    /\ WriterIdle
    /\ PicsIdle

NextGrowing ==
    \/ StartRun
    \/ PostsFetch
    \/ CommentsMetaAnswer
    \/ CommentsBodyAnswer
    \/ Finish
    \/ RemotePost

SpecGrowing == InitGrowing /\ [][NextGrowing]_vars

\* the comment ids in the comment files of disk d
FileCommentIds(d) ==
    UNION {{XmlDecode(d.comments[j])[i].Id : i \in 1..Len(d.comments[j])} :
              j \in DOMAIN d.comments}

\* every comment id in a comment file is a key of the persisted comment map
FilesInMap(d) ==
    FileCommentIds(d) \subseteq DOMAIN DecodeJournalDB(d.db.data).commentMap

\* C21, as stated.  When a run completed without failure and the run after
\* it fetched no new comment metadata and completed, every comment id in a
\* comment file is a key of the persisted comment map.
C21_CaughtUpByMeta ==
    [][(/\ pc = "finish"
        /\ hist.prev.quiet
        /\ DOMAIN loc.newComments = {}
        /\ loc.r.isNil
        /\ out'.exit = 0) => FilesInMap(disk')
      ]_vars

\* C21, amended.  When a run completed without failure in which no request
\* returned a comment, neither metadata nor a body, every comment id in a
\* comment file is a key of the persisted comment map.
C21_CaughtUpFilesInMap ==
    (pc = "done" /\ out.exit = 0 /\ hist.summary.quiet) => FilesInMap(disk)

\* the run before archived the comments 1 and 2, and this run fetched nothing
C21_Witness ==
    /\ pc = "done"
    /\ run = MaxRuns
    /\ out.exit = 0
    /\ hist.summary.quiet
    /\ FileCommentIds(disk) = {1, 2}
    /\ DOMAIN DecodeJournalDB(disk.db.data).commentMap = {1, 2}

(***************************************************************************)
(* The names of the picture files (main.go 1048-1062, 423-439)              *)
(***************************************************************************)
\* the characters of the file name Sprintf gives for a picture file: the
\* prefix, the counter in decimal, the separator, the converted keyword and
\* the extension
FileNameText(pictureFile) ==
    <<pictureFile[1]>> \o AppendInt(pictureFile[2]) \o
    (IF pictureFile[3] = "" THEN <<>> ELSE <<pictureFile[3]>>) \o
    pictureFile[4] \o <<pictureFile[5]>>

\* the file names of the url -> filename map of account data a
PictureNames(a) == {a.pictureUrlFileMap[u] : u \in DOMAIN a.pictureUrlFileMap}

\* no two urls of a share a file name
InjectiveNames(a) ==
    \A u, v \in DOMAIN a.pictureUrlFileMap :
        FileNameText(a.pictureUrlFileMap[u]) = FileNameText(a.pictureUrlFileMap[v])
            => u = v

\* C31.  The url -> filename map, in memory and persisted, never gives two
\* urls the same file name; every file name of the persisted map carries a
\* counter that is at most the persisted file counter, and so does every
\* name of the map in memory with the counter in memory; the file a run
\* writes for a new picture is none of the files of the persisted map.
C31_CollisionFree ==
    /\ InjectiveNames(acct)
    /\ InjectiveNames(PersistedAccount(adisk))
    /\ \A f \in PictureNames(PersistedAccount(adisk)) :
          f[2] >= 1 /\ f[2] <= PersistedAccount(adisk).fileCounter
    /\ \A f \in PictureNames(acct) : f[2] >= 1 /\ f[2] <= acct.fileCounter
    /\ (pst.pc \in {"default", "urls"} /\ plast.called /\ plast.wrote) =>
          /\ plast.url \in DOMAIN acct.pictureUrlFileMap
          /\ acct.pictureUrlFileMap[plast.url] \in DOMAIN adisk.pics
          /\ \A f \in PictureNames(PersistedAccount(adisk)) :
                FileNameText(f) # FileNameText(acct.pictureUrlFileMap[plast.url])

\* a later run, which read the account state with a picture, stored another
\* picture under the next counter
C31_Witness ==
    /\ pst.run = 2
    /\ pst.pc = "urls"
    /\ plast.called
    /\ plast.wrote
    /\ PersistedAccount(adisk).fileCounter = 1
    /\ Cardinality(PictureNames(PersistedAccount(adisk))) = 1
    /\ acct.fileCounter = 2
    /\ Cardinality(PictureNames(acct)) = 2

(***************************************************************************)
(* The account data after a picture sync (main.go 1008-1022, 1062-1085)     *)
(***************************************************************************)
\* picture sync ends without failure, and every download it tried gave the
\* picture (pst.failedDownload: a download of this run failed, 1072-1074)
PicsSyncSucceeds ==
    /\ pst.pc = "urls"
    /\ pst.idx = Len(pst.urls)
    /\ ~pst.failedDownload
    /\ pst'.pc = "done"
    /\ pst'.r.isNil

\* the remote names keyword i once, with a url
NamedOnce(i) ==
    /\ pst.keywords[i] # <<>>
    /\ pst.urls[i] # ""
    /\ \A j \in 1..Len(pst.keywords) : pst.keywords[j] = pst.keywords[i] => j = i

\* C32.  After a picture sync in which every download and every write
\* succeeded, the default url of the account data is the one of the remote
\* answer when that is not empty, and the keyword -> url map gives for every
\* keyword of the answer the url of the answer, in memory and in the account
\* state file when the run wrote it.
C32_AgreesWithRemote ==
    [][PicsSyncSucceeds =>
          /\ pst.defaultpicurl # "" => acct'.pictureDefaultUrl = pst.defaultpicurl
          /\ \A i \in 1..Len(pst.keywords) :
                NamedOnce(i) =>
                   /\ pst.keywords[i] \in DOMAIN acct'.pictureKeywordUrlMap
                   /\ acct'.pictureKeywordUrlMap[pst.keywords[i]] = pst.urls[i]
          /\ pst.updated => PersistedAccount(adisk') = acct'
      ]_vars

\* C32, as the code has it: fetchAnsStorePictureUrl returns at line 1011-1013
\* for a url that is a key of the url -> filename map, before it looks at
\* the keyword.  The default url is set only when the default picture was
\* new to the account state at the start of the run, and a keyword gets a
\* url only from an item whose url was new and is not the one of the default
\* picture; every url of the answer is a key of the url -> filename map.
C32_OnlyNewUrlsRecorded ==
    [][PicsSyncSucceeds =>
          LET old == PersistedAccount(adisk)
              known == DOMAIN old.pictureUrlFileMap
          IN /\ acct' = acct
             /\ pst.updated => PersistedAccount(adisk') = acct'
             /\ acct.pictureDefaultUrl =
                   IF pst.defaultpicurl = "" \/ pst.defaultpicurl \in known
                   THEN old.pictureDefaultUrl ELSE pst.defaultpicurl
             /\ pst.defaultpicurl # "" =>
                   pst.defaultpicurl \in DOMAIN acct.pictureUrlFileMap
             /\ \A i \in 1..Len(pst.keywords) :
                   (pst.keywords[i] # <<>> /\ pst.urls[i] # "") =>
                      pst.urls[i] \in DOMAIN acct.pictureUrlFileMap
             /\ \A k \in DOMAIN acct.pictureKeywordUrlMap :
                   \/ /\ k \in DOMAIN old.pictureKeywordUrlMap
                      /\ old.pictureKeywordUrlMap[k] = acct.pictureKeywordUrlMap[k]
                   \/ \E i \in 1..Len(pst.keywords) :
                         /\ pst.keywords[i] = k
                         /\ pst.urls[i] = acct.pictureKeywordUrlMap[k]
                         /\ pst.urls[i] \notin known
                         /\ pst.urls[i] # pst.defaultpicurl
             /\ \A i \in 1..Len(pst.keywords) :
                   (NamedOnce(i) /\ (pst.urls[i] \in known
                                     \/ pst.urls[i] = pst.defaultpicurl)) =>
                      IF pst.keywords[i] \in DOMAIN old.pictureKeywordUrlMap
                      THEN /\ pst.keywords[i] \in DOMAIN acct.pictureKeywordUrlMap
                           /\ acct.pictureKeywordUrlMap[pst.keywords[i]] =
                                 old.pictureKeywordUrlMap[pst.keywords[i]]
                      ELSE pst.keywords[i] \notin DOMAIN acct.pictureKeywordUrlMap
      ]_vars

\* the remote gave the same url for the default picture and for a keyword:
\* the picture was stored as the default one, every download and write
\* succeeded, and the keyword has no url
C32_Witness ==
    /\ pst.pc = "urls"
    /\ pst.run = 1
    /\ pst.idx = Len(pst.urls)
    /\ ~pst.failedDownload
    /\ pst.updated
    /\ pst.defaultpicurl = "a"
    /\ pst.urls = <<"a">>
    /\ pst.keywords = <<(<<"k", "/">>)>>
    /\ acct.pictureDefaultUrl = "a"
    /\ DOMAIN acct.pictureUrlFileMap = {"a"}
    /\ DOMAIN acct.pictureKeywordUrlMap = {}

=============================================================================
